---- MODULE Spec2Model ----
(***************************************************************************)
(* The recent-documents / bookmarks metadata store of document-reader.     *)
(*                                                                         *)
(* Two implementations of the store live in the repository:                *)
(*   - the TypeScript static class DocumentService (src/unnamed/part_004), *)
(*   - the JavaScript DocumentServiceClass (src/App.js, lines 85-469).     *)
(* Both keep two JSON arrays in AsyncStorage, under the keys               *)
(* '@DocumentReader:bookmarks' and '@DocumentReader:recentDocuments'.      *)
(*                                                                         *)
(* A run of the model is a run of one of the two (impl); its calls are     *)
(* made one after another (each is awaited before the next is issued), so  *)
(* one action is one whole call.  The environment decides, call by call,   *)
(* whether AsyncStorage.getItem or setItem fails.  SpecRace has the calls   *)
(* of two callers overlap instead, SpecSearch adds the searches and        *)
(* SpecUnchecked the callers that hand over incomplete records.            *)
(*                                                                         *)
(* Arrays are 1-based sequences here; an index of 0 stands for the -1 of   *)
(* Array.prototype.findIndex.                                              *)
(***************************************************************************)
EXTENDS Integers, Sequences, FiniteSets, TLC

(***************************************************************************)
(* Bounds of the model.                                                    *)
(***************************************************************************)
\* The capacity of the Recent list the model runs with.  The source sets
\* MAX_RECENT_DOCUMENTS = 20; the code depends on the number only through
\* slice(0, MAX_RECENT_DOCUMENTS) and a length comparison, so the model runs
\* the same code with a capacity small enough for eviction to happen.
RecentCap == 2

(***************************************************************************)
(* Program constants.                                                      *)
(***************************************************************************)
BOOKMARKS_STORAGE_KEY == "@DocumentReader:bookmarks"

RECENT_DOCUMENTS_STORAGE_KEY == "@DocumentReader:recentDocuments"

MAX_RECENT_DOCUMENTS == RecentCap

StorageKeys == {BOOKMARKS_STORAGE_KEY, RECENT_DOCUMENTS_STORAGE_KEY}

(***************************************************************************)
(* DocumentInfo records handed to the store by its callers.  DocA and      *)
(* DocA2 are the same document (same uri) with different metadata.         *)
(***************************************************************************)
DocA == [uri |-> "doc1", name |-> "Report.pdf", type |-> "pdf",
         size |-> "1 KB", lastModified |-> "2024-01-01"]

DocA2 == [uri |-> "doc1", name |-> "renamed.txt", type |-> "txt",
          size |-> "2 KB", lastModified |-> "2024-02-02"]

DocB == [uri |-> "doc2", name |-> "invoice.docx", type |-> "docx",
         size |-> "3 KB", lastModified |-> "2024-03-03"]

DocC == [uri |-> "doc3", name |-> "notes.txt", type |-> "txt",
         size |-> "4 KB", lastModified |-> "2024-04-04"]

DocumentInfos == {DocA, DocA2, DocB, DocC}

\* A document whose name does not hold its type, for the searches.
DocR == [uri |-> "doc4", name |-> "Report", type |-> "pdf",
         size |-> "5 KB", lastModified |-> "2024-05-05"]

\* The documents and the queries of the executions with searches.
SearchDocs == {DocA, DocA2, DocR}

Queries == {"", " ", "PDF", "txt", "report"}

Uris == {d.uri : d \in DocumentInfos} \cup {"nonexistent"}

\* The value of a property an object does not have.  JSON.stringify leaves
\* out a property whose value is undefined and the parsed object gives
\* undefined for it again, so a record keeps Undefined under that property
\* through the storage.
Undefined == "undefined"

\* A Date object, and the string its toJSON() gives.
DateValue == "new Date(2024-06-06T00:00:00.000Z)"

DateISO == "2024-06-06T00:00:00.000Z"

\* Records that lack the uri or the name.
DocNoUri == [uri |-> Undefined, name |-> "notes.txt", type |-> "txt",
             size |-> "4 KB", lastModified |-> "2024-04-04"]

DocNoName == [uri |-> "doc2", name |-> Undefined, type |-> "docx",
              size |-> "3 KB", lastModified |-> "2024-03-03"]

UncheckedInfos == {DocA, DocNoUri, DocNoName}

\* A record with a further property (DocumentInfo allows any), a Date.
DocDated == [uri |-> "doc3", name |-> "notes.txt", type |-> "txt",
             size |-> "4 KB", lastModified |-> "2024-04-04",
             openedOn |-> DateValue]

RoundTripInfos == {DocA, DocA2, DocDated}

\* The properties every DocumentInfo has.
DocumentInfoKeys == {"name", "type", "uri", "size", "lastModified"}

\* The value Date.now() gives.  The JS service stores it in the record it
\* writes (addedAt, accessedAt) and no code of the store reads it back.
Times == {1000}

NoDoc == [uri |-> "", name |-> "", type |-> "", size |-> "", lastModified |-> ""]

(***************************************************************************)
(* AsyncStorage values.  A key holds no value (getItem gives null), a      *)
(* string that is not JSON, or the JSON text of an array of records.       *)
(*                                                                         *)
(* JSON.  The text of an array is kept as the sequence of its objects and  *)
(* an object as the record of its members, a JSON string as the string it  *)
(* denotes and a JSON number as the number.  A record of the model holds   *)
(* a number under addedAt and accessedAt, and a string, a Date or          *)
(* Undefined under every other property.                                   *)
(***************************************************************************)
Null == [tag |-> "null", docs |-> <<>>]

Corrupt == [tag |-> "corrupt", docs |-> <<>>]

NumberKeys == {"addedAt", "accessedAt"}

\* The properties the code reads from a parsed record.
ReadKeys == {"uri", "name", "type"}

\* JSON.stringify of the value under `key`: the JSON number of a number,
\* the JSON string of a string, the JSON string of toJSON() for a Date.
JSON_member(key, v) ==
    IF key \in NumberKeys THEN v
    ELSE IF v = DateValue THEN DateISO ELSE v

\* The properties of the object that JSON.stringify writes: all but those
\* whose value is undefined.
JSON_keys(doc) ==
    {k \in DOMAIN doc : k \in NumberKeys \/ doc[k] # Undefined}

\* The object is written member for member as it is: no Date, no
\* undefined value.
JSON_plain(doc) ==
    \A k \in DOMAIN doc :
        k \in NumberKeys \/ (doc[k] # Undefined /\ doc[k] # DateValue)

\* JSON.stringify of an object.
JSON_object(doc) ==
    IF JSON_plain(doc) THEN doc
    ELSE [k \in JSON_keys(doc) |-> JSON_member(k, doc[k])]

\* Mutant: stringify with the replacer ['uri', 'name', 'type'].
JSON_stringify_Replacer(docs) ==
    [tag |-> "json",
     docs |-> [i \in 1..Len(docs) |->
                 [k \in JSON_keys(docs[i]) \cap ReadKeys |->
                     JSON_member(k, docs[i][k])]]]

\* JSON.stringify of an array of records.
JSON_stringify(docs) ==
    [tag |-> "json",
     docs |-> IF \A i \in 1..Len(docs) : JSON_plain(docs[i])
              THEN docs
              ELSE [i \in 1..Len(docs) |-> JSON_object(docs[i])]]

\* The record JSON.parse builds from an object: the value of every member;
\* reading a property the object does not have gives undefined.
JSON_record(object) ==
    IF ReadKeys \subseteq DOMAIN object
    THEN object
    ELSE [k \in (DOMAIN object) \cup ReadKeys |->
             IF k \in DOMAIN object THEN object[k] ELSE Undefined]

JSON_array(objects) ==
    IF \A i \in 1..Len(objects) : ReadKeys \subseteq DOMAIN objects[i]
    THEN objects
    ELSE [i \in 1..Len(objects) |-> JSON_record(objects[i])]

\* JSON.parse: null for null (JSON.parse(null) is null), a SyntaxError for
\* a string that is not JSON, the array otherwise.
JSON_parse(value) ==
    CASE value.tag = "null"    -> [threw |-> FALSE, isNull |-> TRUE,  docs |-> <<>>]
      [] value.tag = "corrupt" -> [threw |-> TRUE,  isNull |-> FALSE, docs |-> <<>>]
      [] OTHER ->
            [threw |-> FALSE, isNull |-> FALSE,
             docs |-> JSON_array(value.docs)]

(***************************************************************************)
(* Array.prototype helpers, as the code uses them.                         *)
(***************************************************************************)
Min(a, b) == IF a <= b THEN a ELSE b

\* findIndex((doc) => doc.uri === uri): the first index, 0 when there is none.
FindIndex(docs, uri) ==
    IF \E i \in 1..Len(docs) : docs[i].uri = uri
    THEN CHOOSE i \in 1..Len(docs) :
            /\ docs[i].uri = uri
            /\ \A j \in 1..(i - 1) : docs[j].uri # uri
    ELSE 0

\* filter((doc) => doc.uri !== uri)
FilterOut(docs, uri) == SelectSeq(docs, LAMBDA d : d.uri # uri)

\* some((doc) => doc.uri === uri)
Some(docs, uri) == \E i \in 1..Len(docs) : docs[i].uri = uri

\* unshift(doc)
Unshift(docs, doc) == <<doc>> \o docs

\* push(doc)
Push(docs, doc) == Append(docs, doc)

\* splice(index, 1)
Splice1(docs, index) ==
    SubSeq(docs, 1, index - 1) \o SubSeq(docs, index + 1, Len(docs))

\* slice(0, n)
Slice0(docs, n) == SubSeq(docs, 1, Min(n, Len(docs)))


(***************************************************************************)
(* String.prototype helpers.  A string is searched as the sequence of its  *)
(* characters.                                                             *)
(***************************************************************************)
\* The characters of the names, types and queries of the model.
Chars(str) ==
    CASE str = "Report.pdf"  -> <<"R", "e", "p", "o", "r", "t", ".", "p", "d", "f">>
      [] str = "renamed.txt" -> <<"r", "e", "n", "a", "m", "e", "d", ".", "t", "x", "t">>
      [] str = "invoice.docx" -> <<"i", "n", "v", "o", "i", "c", "e", ".", "d", "o", "c", "x">>
      [] str = "notes.txt"   -> <<"n", "o", "t", "e", "s", ".", "t", "x", "t">>
      [] str = "docx"        -> <<"d", "o", "c", "x">>
      [] str = "Report"      -> <<"R", "e", "p", "o", "r", "t">>
      [] str = "report"      -> <<"r", "e", "p", "o", "r", "t">>
      [] str = "pdf"         -> <<"p", "d", "f">>
      [] str = "PDF"         -> <<"P", "D", "F">>
      [] str = "txt"         -> <<"t", "x", "t">>
      [] str = " "           -> <<" ">>
      [] str = ""            -> <<>>

\* toLowerCase()
toLowerCase(chars) ==
    [i \in 1..Len(chars) |->
        CASE chars[i] = "R" -> "r"
          [] chars[i] = "P" -> "p"
          [] chars[i] = "D" -> "d"
          [] chars[i] = "F" -> "f"
          [] OTHER -> chars[i]]

\* includes(searchString): searchString occurs at some position; the
\* empty string occurs in every string.
includes(chars, searchString) ==
    \E i \in 0..(Len(chars) - Len(searchString)) :
        SubSeq(chars, i + 1, i + Len(searchString)) = searchString

(***************************************************************************)
(* AsyncStorage.  A storage maps each key to its value.  The environment   *)
(* decides whether a getItem or a setItem call fails (rejects); a failed   *)
(* setItem stores nothing.                                                 *)
(***************************************************************************)
\* The error object a failed getItem or setItem rejects with.
StorageError == "AsyncStorageError"

NoError == "none"

getItem(storage, key, fails) ==
    IF fails THEN [threw |-> TRUE, error |-> StorageError, value |-> Null]
             ELSE [threw |-> FALSE, error |-> NoError, value |-> storage[key]]

setItem(storage, key, value, fails) ==
    IF fails THEN [threw |-> TRUE, error |-> StorageError, storage |-> storage]
             ELSE [threw |-> FALSE, error |-> NoError,
                   storage |-> [storage EXCEPT ![key] = value]]

\* What a call gives back to its caller: the promise resolves or rejects;
\* ret is the boolean it resolves to and docs the array it resolves to
\* (FALSE and <<>> when the call resolves to nothing of that kind), error
\* the value it rejects with.
Resolved(storage) ==
    [storage |-> storage, status |-> "resolved", ret |-> FALSE, docs |-> <<>>,
     error |-> NoError]

ResolvedBool(storage, b) ==
    [storage |-> storage, status |-> "resolved", ret |-> b, docs |-> <<>>,
     error |-> NoError]

ResolvedDocs(storage, docs) ==
    [storage |-> storage, status |-> "resolved", ret |-> FALSE, docs |-> docs,
     error |-> NoError]

\* catch (error) { console.error(...); throw error; }: the promise rejects
\* with the error that was caught.
Rejected(storage, error) ==
    [storage |-> storage, status |-> "rejected", ret |-> FALSE, docs |-> <<>>,
     error |-> error]

(***************************************************************************)
(* The TypeScript DocumentService (src/unnamed/part_004).                  *)
(***************************************************************************)
\* The array a TS read of `key` returns: getBookmarks and
\* getRecentDocuments have the same body up to the key.
TS_read(storage, key, getFails) ==
    LET got == getItem(storage, key, getFails) IN
    IF got.threw THEN <<>>
    ELSE IF got.value.tag = "null" THEN <<>>
    ELSE LET parsed == JSON_parse(got.value) IN
         IF parsed.threw THEN <<>> ELSE parsed.docs

TS_getBookmarks(storage, getFails) ==
    TS_read(storage, BOOKMARKS_STORAGE_KEY, getFails)

TS_getRecentDocuments(storage, getFails) ==
    TS_read(storage, RECENT_DOCUMENTS_STORAGE_KEY, getFails)

\* Mutant: no look-up of an existing entry, the record is always added.
TS_addBookmark_NoCheck(storage, documentInfo, getFails, setFails) ==
    LET bookmarks == TS_getBookmarks(storage, getFails)
        set == setItem(storage, BOOKMARKS_STORAGE_KEY,
                       JSON_stringify(Unshift(bookmarks, documentInfo)),
                       setFails)
    IN  IF set.threw THEN Rejected(storage, set.error) ELSE Resolved(set.storage)

\* Mutant: push in place of unshift.
TS_addBookmark_Push(storage, documentInfo, getFails, setFails) ==
    LET bookmarks == TS_getBookmarks(storage, getFails)
        existingIndex == FindIndex(bookmarks, documentInfo.uri)
    IN  IF existingIndex = 0
        THEN LET set == setItem(storage, BOOKMARKS_STORAGE_KEY,
                          JSON_stringify(Push(bookmarks, documentInfo)),
                          setFails)
             IN  IF set.threw THEN Rejected(storage, set.error) ELSE Resolved(set.storage)
        ELSE Resolved(storage)

TS_addBookmark(storage, documentInfo, getFails, setFails) ==
    LET bookmarks == TS_getBookmarks(storage, getFails)
        existingIndex == FindIndex(bookmarks, documentInfo.uri)
    IN  IF existingIndex = 0
        THEN LET set == setItem(storage, BOOKMARKS_STORAGE_KEY,
                          JSON_stringify(Unshift(bookmarks, documentInfo)),
                          setFails)
             IN  IF set.threw THEN Rejected(storage, set.error) ELSE Resolved(set.storage)
        ELSE Resolved(storage)

\* Mutant: the catch block logs the error and does not rethrow it.
TS_removeBookmark_Swallow(storage, uri, getFails, setFails) ==
    LET bookmarks == TS_getBookmarks(storage, getFails)
        filteredBookmarks == FilterOut(bookmarks, uri)
        set == setItem(storage, BOOKMARKS_STORAGE_KEY,
                       JSON_stringify(filteredBookmarks), setFails)
    IN  IF set.threw THEN Resolved(storage) ELSE Resolved(set.storage)

TS_removeBookmark(storage, uri, getFails, setFails) ==
    LET bookmarks == TS_getBookmarks(storage, getFails)
        filteredBookmarks == FilterOut(bookmarks, uri)
        set == setItem(storage, BOOKMARKS_STORAGE_KEY,
                       JSON_stringify(filteredBookmarks), setFails)
    IN  IF set.threw THEN Rejected(storage, set.error) ELSE Resolved(set.storage)

\* Mutant: a failed read is passed on to the caller.
TS_isDocumentBookmarked_Throws(storage, uri, getFails) ==
    LET bookmarks == TS_getBookmarks(storage, getFails)
    IN  IF getFails THEN Rejected(storage, StorageError)
        ELSE ResolvedBool(storage, Some(bookmarks, uri))

TS_isDocumentBookmarked(storage, uri, getFails) ==
    LET bookmarks == TS_getBookmarks(storage, getFails)
    IN  ResolvedBool(storage, Some(bookmarks, uri))

\* Mutant: the existing entry is not filtered out.
TS_addToRecentDocuments_NoFilter(storage, documentInfo, getFails, setFails) ==
    LET recentDocs == TS_getRecentDocuments(storage, getFails)
        unshifted == Unshift(recentDocs, documentInfo)
        trimmedDocs == Slice0(unshifted, MAX_RECENT_DOCUMENTS)
        set == setItem(storage, RECENT_DOCUMENTS_STORAGE_KEY,
                       JSON_stringify(trimmedDocs), setFails)
    IN  IF set.threw THEN Rejected(storage, set.error) ELSE Resolved(set.storage)

\* Mutant: slice(-MAX_RECENT_DOCUMENTS), which keeps the tail.
TS_addToRecentDocuments_KeepTail(storage, documentInfo, getFails, setFails) ==
    LET recentDocs == TS_getRecentDocuments(storage, getFails)
        filteredDocs == FilterOut(recentDocs, documentInfo.uri)
        unshifted == Unshift(filteredDocs, documentInfo)
        from == IF Len(unshifted) > MAX_RECENT_DOCUMENTS
                THEN Len(unshifted) - MAX_RECENT_DOCUMENTS + 1 ELSE 1
        trimmedDocs == SubSeq(unshifted, from, Len(unshifted))
        set == setItem(storage, RECENT_DOCUMENTS_STORAGE_KEY,
                       JSON_stringify(trimmedDocs), setFails)
    IN  IF set.threw THEN Rejected(storage, set.error) ELSE Resolved(set.storage)

\* Mutant: setItem is not awaited; the promise resolves while the write is
\* still to land.
TS_addToRecentDocuments_NoAwait(storage, documentInfo, getFails, setFails) ==
    Resolved(storage)

TS_addToRecentDocuments(storage, documentInfo, getFails, setFails) ==
    LET recentDocs == TS_getRecentDocuments(storage, getFails)
        filteredDocs == FilterOut(recentDocs, documentInfo.uri)
        unshifted == Unshift(filteredDocs, documentInfo)
        trimmedDocs == Slice0(unshifted, MAX_RECENT_DOCUMENTS)
        set == setItem(storage, RECENT_DOCUMENTS_STORAGE_KEY,
                       JSON_stringify(trimmedDocs), setFails)
    IN  IF set.threw THEN Rejected(storage, set.error) ELSE Resolved(set.storage)

\* Mutant: the bookmarks are cleared with the recent documents.
TS_clearRecentDocuments_All(storage, setFails) ==
    LET set == setItem([storage EXCEPT ![BOOKMARKS_STORAGE_KEY] = JSON_stringify(<<>>)],
                       RECENT_DOCUMENTS_STORAGE_KEY,
                       JSON_stringify(<<>>), setFails)
    IN  IF set.threw THEN Rejected(storage, set.error) ELSE Resolved(set.storage)

TS_clearRecentDocuments(storage, setFails) ==
    LET set == setItem(storage, RECENT_DOCUMENTS_STORAGE_KEY,
                       JSON_stringify(<<>>), setFails)
    IN  IF set.threw THEN Rejected(storage, set.error) ELSE Resolved(set.storage)

\* allDocs.filter((doc, index, self) =>
\*     index === self.findIndex((d) => d.uri === doc.uri)), from `index` on.
RECURSIVE UniqueFrom(_, _)
UniqueFrom(allDocs, index) ==
    IF index > Len(allDocs) THEN <<>>
    ELSE (IF index = FindIndex(allDocs, allDocs[index].uri)
          THEN <<allDocs[index]>> ELSE <<>>)
         \o UniqueFrom(allDocs, index + 1)

\* Mutant: the type is not searched.
TS_searchDocuments_NameOnly(storage, query, recentFails, bookmarksFails) ==
    LET recent == TS_getRecentDocuments(storage, recentFails)
        bookmarks == TS_getBookmarks(storage, bookmarksFails)
        allDocs == recent \o bookmarks
        uniqueDocs == UniqueFrom(allDocs, 1)
        q == toLowerCase(Chars(query))
    IN  ResolvedDocs(storage,
           SelectSeq(uniqueDocs,
                     LAMBDA doc : includes(toLowerCase(Chars(doc.name)), q)))

\* The catch block (return []) is reached only when a stored record has no
\* string under name or type; the two reads never throw.
TS_searchDocuments(storage, query, recentFails, bookmarksFails) ==
    LET recent == TS_getRecentDocuments(storage, recentFails)
        bookmarks == TS_getBookmarks(storage, bookmarksFails)
        allDocs == recent \o bookmarks
        uniqueDocs == UniqueFrom(allDocs, 1)
        q == toLowerCase(Chars(query))
    IN  ResolvedDocs(storage,
           SelectSeq(uniqueDocs,
                     LAMBDA doc : \/ includes(toLowerCase(Chars(doc.name)), q)
                                  \/ includes(toLowerCase(Chars(doc.type)), q)))

(***************************************************************************)
(* The mutating TS operations in two halves, for the executions in which   *)
(* calls overlap: what the operation reads, and what it then writes from   *)
(* the array its read returned.                                            *)
(***************************************************************************)
\* The key the operation reads and writes.
TS_keyOf(op) ==
    IF op \in {"addBookmark", "removeBookmark"}
    THEN BOOKMARKS_STORAGE_KEY ELSE RECENT_DOCUMENTS_STORAGE_KEY

\* The array the operation's read returns (clearRecentDocuments reads
\* nothing).
TS_readOf(storage, op) ==
    IF op = "clearRecentDocuments" THEN <<>>
    ELSE TS_read(storage, TS_keyOf(op), FALSE)

\* Whether the operation calls setItem after its read returned `read`:
\* addBookmark does not when it finds the uri.
TS_callsSetItem(op, read, uri) ==
    op = "addBookmark" => FindIndex(read, uri) = 0

\* Mutant: addToRecentDocuments prepends without removing the uri first.
TS_toWrite_NoFilter(op, read, doc, uri) ==
    CASE op = "addBookmark" -> Unshift(read, doc)
      [] op = "removeBookmark" -> FilterOut(read, uri)
      [] op = "addToRecentDocuments" ->
            Slice0(Unshift(read, doc), MAX_RECENT_DOCUMENTS)
      [] op = "clearRecentDocuments" -> <<>>

\* The array the operation hands to JSON.stringify and setItem.
TS_toWrite(op, read, doc, uri) ==
    CASE op = "addBookmark" -> Unshift(read, doc)
      [] op = "removeBookmark" -> FilterOut(read, uri)
      [] op = "addToRecentDocuments" ->
            Slice0(Unshift(FilterOut(read, uri), doc), MAX_RECENT_DOCUMENTS)
      [] op = "clearRecentDocuments" -> <<>>

\* Mutant: the read and the write are one atomic step (the array is
\* computed from the value the key holds when setItem lands).
TS_setItemOf_Atomic(storage, task) ==
    setItem(storage, TS_keyOf(task.op),
            JSON_stringify(TS_toWrite(task.op, TS_readOf(storage, task.op),
                                      task.doc, task.uri)),
            FALSE).storage

\* The storage after the setItem of the call in flight `task` has landed.
TS_setItemOf(storage, task) ==
    setItem(storage, TS_keyOf(task.op),
            JSON_stringify(TS_toWrite(task.op, task.read, task.doc, task.uri)),
            FALSE).storage

(***************************************************************************)
(* The JavaScript DocumentServiceClass (src/App.js).                       *)
(***************************************************************************)
\* `JSON.parse(json) || []` after `await AsyncStorage.getItem(key)`: the
\* array, or a throw (of getItem or of JSON.parse).
JS_load(storage, key, getFails) ==
    LET got == getItem(storage, key, getFails) IN
    IF got.threw THEN [threw |-> TRUE, docs |-> <<>>]
    ELSE LET parsed == JSON_parse(got.value) IN
         IF parsed.threw THEN [threw |-> TRUE, docs |-> <<>>]
         ELSE IF parsed.isNull THEN [threw |-> FALSE, docs |-> <<>>]
         ELSE [threw |-> FALSE, docs |-> parsed.docs]

\* Mutant: an existing entry is replaced by the new record.
JS_addBookmark_Overwrite(storage, uri, name, type, now, getFails, setFails) ==
    LET loaded == JS_load(storage, BOOKMARKS_STORAGE_KEY, getFails) IN
    IF loaded.threw THEN ResolvedBool(storage, FALSE)
    ELSE LET bookmarks == FilterOut(loaded.docs, uri)
             pushed == Push(bookmarks,
                            [uri |-> uri, name |-> name, type |-> type,
                             addedAt |-> now])
             set == setItem(storage, BOOKMARKS_STORAGE_KEY,
                            JSON_stringify(pushed), setFails)
         IN  IF set.threw THEN ResolvedBool(storage, FALSE)
             ELSE ResolvedBool(set.storage, TRUE)

JS_addBookmark(storage, uri, name, type, now, getFails, setFails) ==
    LET loaded == JS_load(storage, BOOKMARKS_STORAGE_KEY, getFails) IN
    IF loaded.threw THEN ResolvedBool(storage, FALSE)
    ELSE LET bookmarks == loaded.docs
             existing == Some(bookmarks, uri)
         IN  IF existing THEN ResolvedBool(storage, TRUE)
             ELSE LET pushed == Push(bookmarks,
                                     [uri |-> uri, name |-> name, type |-> type,
                                      addedAt |-> now])
                      set == setItem(storage, BOOKMARKS_STORAGE_KEY,
                                     JSON_stringify(pushed), setFails)
                  IN  IF set.threw THEN ResolvedBool(storage, FALSE)
                      ELSE ResolvedBool(set.storage, TRUE)

\* Mutant: removing a uri that is not bookmarked is reported as a failure.
JS_removeBookmark_Strict(storage, uri, getFails, setFails) ==
    LET loaded == JS_load(storage, BOOKMARKS_STORAGE_KEY, getFails) IN
    IF loaded.threw THEN ResolvedBool(storage, FALSE)
    ELSE IF ~Some(loaded.docs, uri) THEN ResolvedBool(storage, FALSE)
    ELSE LET bookmarks == FilterOut(loaded.docs, uri)
             set == setItem(storage, BOOKMARKS_STORAGE_KEY,
                            JSON_stringify(bookmarks), setFails)
         IN  IF set.threw THEN ResolvedBool(storage, FALSE)
             ELSE ResolvedBool(set.storage, TRUE)

JS_removeBookmark(storage, uri, getFails, setFails) ==
    LET loaded == JS_load(storage, BOOKMARKS_STORAGE_KEY, getFails) IN
    IF loaded.threw THEN ResolvedBool(storage, FALSE)
    ELSE LET bookmarks == FilterOut(loaded.docs, uri)
             set == setItem(storage, BOOKMARKS_STORAGE_KEY,
                            JSON_stringify(bookmarks), setFails)
         IN  IF set.threw THEN ResolvedBool(storage, FALSE)
             ELSE ResolvedBool(set.storage, TRUE)

JS_getBookmarks(storage, getFails) ==
    LET loaded == JS_load(storage, BOOKMARKS_STORAGE_KEY, getFails) IN
    IF loaded.threw THEN <<>> ELSE loaded.docs

JS_isDocumentBookmarked(storage, uri, getFails) ==
    LET bookmarks == JS_getBookmarks(storage, getFails)
    IN  ResolvedBool(storage, Some(bookmarks, uri))

\* { ...document, accessedAt: Date.now() }
WithAccessedAt(document, now) ==
    [f \in (DOMAIN document) \cup {"accessedAt"} |->
        IF f = "accessedAt" THEN now ELSE document[f]]

\* Mutant: push in place of unshift.
JS_addToRecentDocuments_Append(storage, document, now, getFails, setFails) ==
    LET loaded == JS_load(storage, RECENT_DOCUMENTS_STORAGE_KEY, getFails) IN
    IF loaded.threw THEN ResolvedBool(storage, FALSE)
    ELSE LET existingIndex == FindIndex(loaded.docs, document.uri)
             spliced == IF existingIndex # 0
                        THEN Splice1(loaded.docs, existingIndex)
                        ELSE loaded.docs
             pushed == Push(spliced, WithAccessedAt(document, now))
             recentDocuments ==
                 IF Len(pushed) > MAX_RECENT_DOCUMENTS
                 THEN Slice0(pushed, MAX_RECENT_DOCUMENTS)
                 ELSE pushed
             set == setItem(storage, RECENT_DOCUMENTS_STORAGE_KEY,
                            JSON_stringify(recentDocuments), setFails)
         IN  IF set.threw THEN ResolvedBool(storage, FALSE)
             ELSE ResolvedBool(set.storage, TRUE)

\* Mutant: the list is not cut to MAX_RECENT_DOCUMENTS.
JS_addToRecentDocuments_NoLimit(storage, document, now, getFails, setFails) ==
    LET loaded == JS_load(storage, RECENT_DOCUMENTS_STORAGE_KEY, getFails) IN
    IF loaded.threw THEN ResolvedBool(storage, FALSE)
    ELSE LET existingIndex == FindIndex(loaded.docs, document.uri)
             spliced == IF existingIndex # 0
                        THEN Splice1(loaded.docs, existingIndex)
                        ELSE loaded.docs
             recentDocuments == Unshift(spliced, WithAccessedAt(document, now))
             set == setItem(storage, RECENT_DOCUMENTS_STORAGE_KEY,
                            JSON_stringify(recentDocuments), setFails)
         IN  IF set.threw THEN ResolvedBool(storage, FALSE)
             ELSE ResolvedBool(set.storage, TRUE)

\* Mutant: room is made before the existing entry is taken out.
JS_addToRecentDocuments_TrimFirst(storage, document, now, getFails, setFails) ==
    LET loaded == JS_load(storage, RECENT_DOCUMENTS_STORAGE_KEY, getFails) IN
    IF loaded.threw THEN ResolvedBool(storage, FALSE)
    ELSE LET trimmed == Slice0(loaded.docs, MAX_RECENT_DOCUMENTS - 1)
             existingIndex == FindIndex(trimmed, document.uri)
             spliced == IF existingIndex # 0
                        THEN Splice1(trimmed, existingIndex)
                        ELSE trimmed
             recentDocuments == Unshift(spliced, WithAccessedAt(document, now))
             set == setItem(storage, RECENT_DOCUMENTS_STORAGE_KEY,
                            JSON_stringify(recentDocuments), setFails)
         IN  IF set.threw THEN ResolvedBool(storage, FALSE)
             ELSE ResolvedBool(set.storage, TRUE)

JS_addToRecentDocuments(storage, document, now, getFails, setFails) ==
    LET loaded == JS_load(storage, RECENT_DOCUMENTS_STORAGE_KEY, getFails) IN
    IF loaded.threw THEN ResolvedBool(storage, FALSE)
    ELSE LET existingIndex == FindIndex(loaded.docs, document.uri)
             spliced == IF existingIndex # 0
                        THEN Splice1(loaded.docs, existingIndex)
                        ELSE loaded.docs
             unshifted == Unshift(spliced, WithAccessedAt(document, now))
             recentDocuments ==
                 IF Len(unshifted) > MAX_RECENT_DOCUMENTS
                 THEN Slice0(unshifted, MAX_RECENT_DOCUMENTS)
                 ELSE unshifted
             set == setItem(storage, RECENT_DOCUMENTS_STORAGE_KEY,
                            JSON_stringify(recentDocuments), setFails)
         IN  IF set.threw THEN ResolvedBool(storage, FALSE)
             ELSE ResolvedBool(set.storage, TRUE)

\* Mutant: the list is returned oldest first.
JS_getRecentDocuments_Reversed(storage, getFails) ==
    LET loaded == JS_load(storage, RECENT_DOCUMENTS_STORAGE_KEY, getFails)
        n == Len(loaded.docs)
    IN  IF loaded.threw THEN <<>>
        ELSE [i \in 1..n |-> loaded.docs[n - i + 1]]

JS_getRecentDocuments(storage, getFails) ==
    LET loaded == JS_load(storage, RECENT_DOCUMENTS_STORAGE_KEY, getFails) IN
    IF loaded.threw THEN <<>> ELSE loaded.docs

\* Mutant: only the most recent entry is dropped.
JS_clearRecentDocuments_DropFirst(storage, setFails) ==
    LET docs == JSON_parse(storage[RECENT_DOCUMENTS_STORAGE_KEY]).docs
        set == setItem(storage, RECENT_DOCUMENTS_STORAGE_KEY,
                       JSON_stringify(IF docs = <<>> THEN <<>> ELSE Tail(docs)),
                       setFails)
    IN  IF set.threw THEN ResolvedBool(storage, FALSE)
        ELSE ResolvedBool(set.storage, TRUE)

JS_clearRecentDocuments(storage, setFails) ==
    LET set == setItem(storage, RECENT_DOCUMENTS_STORAGE_KEY,
                       JSON_stringify(<<>>), setFails)
    IN  IF set.threw THEN ResolvedBool(storage, FALSE)
        ELSE ResolvedBool(set.storage, TRUE)

(***************************************************************************)
(* State.                                                                  *)
(***************************************************************************)
VARIABLES
    impl,      \* the service of this run: "ts" or "js"
    storage,   \* AsyncStorage: key -> value
    call,      \* the last call made: operation, arguments, storage faults
    outcome,   \* what that call gave back to its caller
    opened,    \* history: the records opened since the Recent list was empty
    tasks,     \* the calls in flight when callers do not await each other
    component, \* the React state of the mounted component, if one is mounted
    observed   \* history: the calls the component made and what they returned

vars == <<impl, storage, call, outcome, opened, tasks, component, observed>>

\* No component is mounted: the service is called directly.
Unmounted == [name |-> "none"]

Outcome(result) ==
    [status |-> result.status, ret |-> result.ret, docs |-> result.docs,
     error |-> result.error]

NoOutcome == [status |-> "none", ret |-> FALSE, docs |-> <<>>, error |-> NoError]

Call(op, doc, uri, getFails, setFails) ==
    [op |-> op, doc |-> doc, uri |-> uri,
     getFails |-> getFails, setFails |-> setFails]

\* The callers that may have a call in flight at the same time (two
\* components, or two handlers of one component).
Callers == {"caller1", "caller2"}

\* A caller with no call in flight.  A call in flight has read its list
\* (read) and waits for its setItem (pc = "setItem"); stale is a history
\* flag: another call has written the same key since this one read it.
IdleTask ==
    [pc |-> "idle", op |-> "none", doc |-> NoDoc, uri |-> "",
     read |-> <<>>, status |-> "none", stale |-> FALSE]

\* The values a key can hold when the service starts: nothing (fresh
\* install), an empty array, or a string that is not JSON.
InitialValues == {Null, JSON_stringify(<<>>), Corrupt}

Init ==
    /\ impl \in {"ts", "js"}
    /\ \E b \in InitialValues, r \in InitialValues :
          storage = [k \in StorageKeys |->
                        IF k = BOOKMARKS_STORAGE_KEY THEN b ELSE r]
    /\ call = Call("none", NoDoc, "", FALSE, FALSE)
    /\ outcome = NoOutcome
    /\ opened = [tracking |-> storage[RECENT_DOCUMENTS_STORAGE_KEY] # Corrupt,
                 docs |-> <<>>]
    /\ tasks = [c \in Callers |-> IdleTask]
    /\ component = Unmounted
    /\ observed = [calls |-> 0]

(***************************************************************************)
(* The history variable opened records the arguments of the                *)
(* addToRecentDocuments calls made since the Recent list was empty (at     *)
(* start, or after a clearRecentDocuments that succeeded), as long as      *)
(* these calls met no storage fault and had pairwise distinct uris; when   *)
(* a call breaks that, tracking stops until the list is cleared again.     *)
(***************************************************************************)
NotTracking == [tracking |-> FALSE, docs |-> <<>>]

OpenedAfter(c) ==
    CASE c.op = "addToRecentDocuments" ->
            IF /\ opened.tracking
               /\ ~c.getFails /\ ~c.setFails
               /\ ~Some(opened.docs, c.uri)
            THEN [tracking |-> TRUE, docs |-> Append(opened.docs, c.doc)]
            ELSE NotTracking
      [] c.op = "clearRecentDocuments" ->
            IF c.setFails THEN opened ELSE [tracking |-> TRUE, docs |-> <<>>]
      [] OTHER -> opened

(***************************************************************************)
(* Actions: one per call of a public operation.                            *)
(***************************************************************************)
\* The call returns: its effect on the storage and what it gives back.
Returns(result) ==
    /\ storage' = result.storage
    /\ outcome' = Outcome(result)
    /\ opened' = OpenedAfter(call')
    /\ impl' = impl
    /\ tasks' = tasks
    /\ component' = component
    /\ observed' = observed

\* useDocuments.toggleBookmark calls the TS service with the record and the
\* JS service with (uri, name, type).
AddBookmark(d, t, getFails, setFails) ==
    /\ call' = Call("addBookmark", d, d.uri, getFails, setFails)
    /\ Returns(IF impl = "ts"
               THEN TS_addBookmark(storage, d, getFails, setFails)
               ELSE JS_addBookmark(storage, d.uri, d.name, d.type, t,
                                   getFails, setFails))

RemoveBookmark(uri, getFails, setFails) ==
    /\ call' = Call("removeBookmark", NoDoc, uri, getFails, setFails)
    /\ Returns(IF impl = "ts"
               THEN TS_removeBookmark(storage, uri, getFails, setFails)
               ELSE JS_removeBookmark(storage, uri, getFails, setFails))

IsDocumentBookmarked(uri, getFails) ==
    /\ call' = Call("isDocumentBookmarked", NoDoc, uri, getFails, FALSE)
    /\ Returns(IF impl = "ts"
               THEN TS_isDocumentBookmarked(storage, uri, getFails)
               ELSE JS_isDocumentBookmarked(storage, uri, getFails))

GetBookmarks(getFails) ==
    /\ call' = Call("getBookmarks", NoDoc, "", getFails, FALSE)
    /\ Returns(ResolvedDocs(storage,
                 IF impl = "ts" THEN TS_getBookmarks(storage, getFails)
                                ELSE JS_getBookmarks(storage, getFails)))

AddToRecentDocuments(d, t, getFails, setFails) ==
    /\ call' = Call("addToRecentDocuments", d, d.uri, getFails, setFails)
    /\ Returns(IF impl = "ts"
               THEN TS_addToRecentDocuments(storage, d, getFails, setFails)
               ELSE JS_addToRecentDocuments(storage, d, t, getFails, setFails))

GetRecentDocuments(getFails) ==
    /\ call' = Call("getRecentDocuments", NoDoc, "", getFails, FALSE)
    /\ Returns(ResolvedDocs(storage,
                 IF impl = "ts" THEN TS_getRecentDocuments(storage, getFails)
                                ELSE JS_getRecentDocuments(storage, getFails)))

ClearRecentDocuments(setFails) ==
    /\ call' = Call("clearRecentDocuments", NoDoc, "", FALSE, setFails)
    /\ Returns(IF impl = "ts" THEN TS_clearRecentDocuments(storage, setFails)
                              ELSE JS_clearRecentDocuments(storage, setFails))

Next ==
    \/ \E d \in DocumentInfos, t \in Times, gf \in BOOLEAN, sf \in BOOLEAN :
          AddBookmark(d, t, gf, sf)
    \/ \E u \in Uris, gf \in BOOLEAN, sf \in BOOLEAN : RemoveBookmark(u, gf, sf)
    \/ \E u \in Uris, gf \in BOOLEAN : IsDocumentBookmarked(u, gf)
    \/ \E gf \in BOOLEAN : GetBookmarks(gf)
    \/ \E d \in DocumentInfos, t \in Times, gf \in BOOLEAN, sf \in BOOLEAN :
          AddToRecentDocuments(d, t, gf, sf)
    \/ \E gf \in BOOLEAN : GetRecentDocuments(gf)
    \/ \E sf \in BOOLEAN : ClearRecentDocuments(sf)

Spec == Init /\ [][Next]_vars

(***************************************************************************)
(* Failure-free executions: every key holds nothing or a JSON array at     *)
(* start, and no getItem or setItem call fails.                            *)
(***************************************************************************)
InitFailureFree ==
    /\ Init
    /\ \A k \in StorageKeys : storage[k] # Corrupt

NextFailureFree ==
    \/ \E d \in DocumentInfos, t \in Times : AddBookmark(d, t, FALSE, FALSE)
    \/ \E u \in Uris : RemoveBookmark(u, FALSE, FALSE)
    \/ \E u \in Uris : IsDocumentBookmarked(u, FALSE)
    \/ GetBookmarks(FALSE)
    \/ \E d \in DocumentInfos, t \in Times : AddToRecentDocuments(d, t, FALSE, FALSE)
    \/ GetRecentDocuments(FALSE)
    \/ ClearRecentDocuments(FALSE)

SpecFailureFree == InitFailureFree /\ [][NextFailureFree]_vars

(***************************************************************************)
(* Concurrent calls of the TS service.  Each mutating operation is an      *)
(* async function: it awaits its read (getBookmarks / getRecentDocuments), *)
(* computes the new array from what the read returned, and awaits          *)
(* AsyncStorage.setItem.  Nothing orders the setItem of one call and the   *)
(* read or setItem of another, so a call is two steps here: BeginCall (the *)
(* call is made and its read returns) and SetItemDone (its setItem lands   *)
(* and the promise resolves).  No storage fault in these executions.       *)
(***************************************************************************)
\* The documents of the concurrent executions.
RaceDocs == {DocA, DocB}

RaceOps ==
    {"addBookmark", "removeBookmark", "addToRecentDocuments",
     "clearRecentDocuments"}

\* The arguments of a call of `op` for the document d: the record for the
\* two add operations, the uri for all but clearRecentDocuments.
ArgDoc(op, d) ==
    IF op \in {"addBookmark", "addToRecentDocuments"} THEN d ELSE NoDoc

ArgUri(op, d) == IF op = "clearRecentDocuments" THEN "" ELSE d.uri

\* The caller makes a call and the call's read returns.
BeginCall(c, op, d) ==
    /\ impl = "ts"
    /\ tasks[c].pc \in {"idle", "done"}
    /\ LET read == TS_readOf(storage, op)
           pending == TS_callsSetItem(op, read, ArgUri(op, d))
       IN  tasks' = [tasks EXCEPT ![c] =
                        [pc |-> IF pending THEN "setItem" ELSE "done",
                         op |-> op, doc |-> ArgDoc(op, d), uri |-> ArgUri(op, d),
                         read |-> read,
                         status |-> IF pending THEN "pending" ELSE "resolved",
                         stale |-> FALSE]]
    /\ UNCHANGED <<impl, storage, call, outcome, opened, component, observed>>

\* The setItem of the caller's call lands and the call resolves.
SetItemDone(c) ==
    /\ tasks[c].pc = "setItem"
    /\ storage' = TS_setItemOf(storage, tasks[c])
    /\ tasks' = [k \in Callers |->
                    IF k = c
                    THEN [tasks[c] EXCEPT !.pc = "done", !.status = "resolved"]
                    ELSE IF /\ tasks[k].pc = "setItem"
                            /\ TS_keyOf(tasks[k].op) = TS_keyOf(tasks[c].op)
                         THEN [tasks[k] EXCEPT !.stale = TRUE]
                         ELSE tasks[k]]
    /\ UNCHANGED <<impl, call, outcome, opened, component, observed>>

InitRace ==
    /\ InitFailureFree
    /\ impl = "ts"

NextRace ==
    \/ \E c \in Callers, op \in RaceOps, d \in RaceDocs : BeginCall(c, op, d)
    \/ \E c \in Callers : SetItemDone(c)

SpecRace == InitRace /\ [][NextRace]_vars

\* Overlapping calls of a later session: the recent list may already hold a
\* document opened in an earlier session (DocC, which no call of this
\* session names), so that a list of MAX_RECENT_DOCUMENTS records can
\* receive a further uri.
InitRaceStored ==
    /\ impl = "ts"
    /\ \E r \in {Null, JSON_stringify(<<>>), JSON_stringify(<<DocC>>)} :
          storage = [k \in StorageKeys |->
                        IF k = BOOKMARKS_STORAGE_KEY THEN Null ELSE r]
    /\ call = Call("none", NoDoc, "", FALSE, FALSE)
    /\ outcome = NoOutcome
    /\ opened = [tracking |-> FALSE, docs |-> <<>>]
    /\ tasks = [c \in Callers |-> IdleTask]
    /\ component = Unmounted
    /\ observed = [calls |-> 0]

SpecRaceStored == InitRaceStored /\ [][NextRace]_vars

(***************************************************************************)
(* The JS service while its constructor's initializeService is still       *)
(* running.  The constructor starts initializeService and does not await   *)
(* it, so its awaits interleave with the calls made on the new object:     *)
(* each getItem and each setItem is one step, of initializeService and of  *)
(* the add operations alike.  No storage fault in these executions.        *)
(***************************************************************************)
\* The task of the constructor's initializeService call.
InitializeService == "initializeService"

JS_RaceOps == {"addBookmark", "addToRecentDocuments"}

\* The key that initializeService handles at the position pc.
InitializeKey(pc) ==
    IF pc \in {"getItem bookmarks", "setItem bookmarks"}
    THEN BOOKMARKS_STORAGE_KEY ELSE RECENT_DOCUMENTS_STORAGE_KEY

\* The position after initializeService is done with the key.
InitializeAfter(key) ==
    IF key = BOOKMARKS_STORAGE_KEY THEN "getItem recentDocuments" ELSE "done"

InitializeTask(pc) ==
    [IdleTask EXCEPT !.pc = pc, !.op = InitializeService,
                     !.status = IF pc = "done" THEN "resolved" ELSE "pending"]

\* `await FileSystemService.initializeDocumentDirectory()`: when it rejects,
\* the catch logs and initializeService is over.
InitializeDocumentDirectory(fails) ==
    /\ tasks[InitializeService].pc = "initializeDocumentDirectory"
    /\ tasks' = [tasks EXCEPT ![InitializeService] =
                    InitializeTask(IF fails THEN "done" ELSE "getItem bookmarks")]
    /\ UNCHANGED <<impl, storage, call, outcome, opened, component, observed>>

\* `await AsyncStorage.getItem(key)` returns and `=== null` is tested.
InitializeGetItem ==
    /\ tasks[InitializeService].pc \in
          {"getItem bookmarks", "getItem recentDocuments"}
    /\ LET key == InitializeKey(tasks[InitializeService].pc)
           got == getItem(storage, key, FALSE)
       IN  tasks' = [tasks EXCEPT ![InitializeService] =
                        InitializeTask(
                            IF got.value = Null
                            THEN IF key = BOOKMARKS_STORAGE_KEY
                                 THEN "setItem bookmarks"
                                 ELSE "setItem recentDocuments"
                            ELSE InitializeAfter(key))]
    /\ UNCHANGED <<impl, storage, call, outcome, opened, component, observed>>

\* `await AsyncStorage.setItem(key, JSON.stringify([]))` lands.
InitializeSetItem ==
    /\ tasks[InitializeService].pc \in
          {"setItem bookmarks", "setItem recentDocuments"}
    /\ LET key == InitializeKey(tasks[InitializeService].pc) IN
       /\ storage' = setItem(storage, key, JSON_stringify(<<>>), FALSE).storage
       /\ tasks' = [tasks EXCEPT ![InitializeService] =
                       InitializeTask(InitializeAfter(key))]
    /\ UNCHANGED <<impl, call, outcome, opened, component, observed>>

\* The caller calls addBookmark or addToRecentDocuments and the call's
\* getItem returns; addBookmark returns true at once when it finds the uri.
JS_BeginCall(c, op, d) ==
    /\ impl = "js"
    /\ tasks[c].pc \in {"idle", "done"}
    /\ LET read == JS_load(storage, TS_keyOf(op), FALSE).docs
           pending == op = "addBookmark" => ~Some(read, d.uri)
       IN  tasks' = [tasks EXCEPT ![c] =
                        [pc |-> IF pending THEN "setItem" ELSE "done",
                         op |-> op, doc |-> d, uri |-> d.uri, read |-> read,
                         status |-> IF pending THEN "pending" ELSE "resolved",
                         stale |-> FALSE]]
    /\ UNCHANGED <<impl, storage, call, outcome, opened, component, observed>>

\* The value the call in flight hands to setItem: what the operation
\* computes from the array its getItem returned.
JS_toWrite(task, now) ==
    LET key == TS_keyOf(task.op)
        asRead == [storage EXCEPT ![key] = JSON_stringify(task.read)]
        result == IF task.op = "addBookmark"
                  THEN JS_addBookmark(asRead, task.doc.uri, task.doc.name,
                                      task.doc.type, now, FALSE, FALSE)
                  ELSE JS_addToRecentDocuments(asRead, task.doc, now,
                                               FALSE, FALSE)
    IN  result.storage[key]

\* The setItem of the caller's call lands and the call returns true.
JS_SetItemDone(c, now) ==
    /\ c \in Callers
    /\ tasks[c].pc = "setItem"
    /\ storage' = setItem(storage, TS_keyOf(tasks[c].op),
                          JS_toWrite(tasks[c], now), FALSE).storage
    /\ tasks' = [tasks EXCEPT ![c].pc = "done", ![c].status = "resolved"]
    /\ UNCHANGED <<impl, call, outcome, opened, component, observed>>

\* A new DocumentServiceClass object: the constructor has started
\* initializeService; a key is absent (first start) or holds an array.
InitConstructed ==
    /\ impl = "js"
    /\ storage \in [StorageKeys -> {Null, JSON_stringify(<<>>)}]
    /\ call = Call("none", NoDoc, "", FALSE, FALSE)
    /\ outcome = NoOutcome
    /\ opened = [tracking |-> FALSE, docs |-> <<>>]
    /\ tasks = [c \in Callers \cup {InitializeService} |->
                   IF c = InitializeService
                   THEN InitializeTask("initializeDocumentDirectory")
                   ELSE IdleTask]
    /\ component = Unmounted
    /\ observed = [calls |-> 0]

NextConstructed ==
    \/ \E fails \in BOOLEAN : InitializeDocumentDirectory(fails)
    \/ InitializeGetItem
    \/ InitializeSetItem
    \/ \E c \in Callers, op \in JS_RaceOps, d \in RaceDocs : JS_BeginCall(c, op, d)
    \/ \E c \in Callers, now \in Times : JS_SetItemDone(c, now)

SpecConstructed == InitConstructed /\ [][NextConstructed]_vars

(***************************************************************************)
(* The hook useDocuments (src/hooks/useDocuments.ts) over the TS service.  *)
(* Its handlers are async functions that nothing serialises: a handler can *)
(* be invoked again while an earlier invocation awaits.  No storage fault  *)
(* in these executions.                                                    *)
(***************************************************************************)
\* The number of toggleBookmark invocations in an execution.
MaxToggles == 3

\* The state of the hook after its useState calls.
UseDocuments ==
    [name |-> "useDocuments", documents |-> <<>>, isLoading |-> TRUE,
     error |-> "null", bookmarkedDocuments |-> <<>>, recentDocuments |-> <<>>]

\* A caller of toggleBookmark with no invocation in flight; isBookmarked is
\* the local constant of the invocation.
IdleToggle ==
    [pc |-> "idle", op |-> "none", doc |-> NoDoc, uri |-> "", read |-> <<>>,
     status |-> "none", stale |-> FALSE, isBookmarked |-> FALSE]

\* toggleBookmark(d) is invoked and its `await
\* DocumentService.isDocumentBookmarked(document.uri)` returns; the branch
\* taken calls removeBookmark or addBookmark.
ToggleBookmark(c, d) ==
    /\ impl = "ts"
    /\ component.name = "useDocuments"
    /\ tasks[c].pc \in {"idle", "done"}
    /\ observed.calls < MaxToggles
    /\ LET isBookmarked == TS_isDocumentBookmarked(storage, d.uri, FALSE).ret IN
       tasks' = [tasks EXCEPT ![c] =
                    [pc |-> "getBookmarks",
                     op |-> IF isBookmarked THEN "removeBookmark"
                                            ELSE "addBookmark",
                     doc |-> d, uri |-> d.uri, read |-> <<>>,
                     status |-> "pending", stale |-> FALSE,
                     isBookmarked |-> isBookmarked]]
    /\ observed' = [observed EXCEPT !.calls = @ + 1]
    /\ UNCHANGED <<impl, storage, call, outcome, opened, component>>

\* The service call of the invocation has resolved: setBookmarkedDocuments
\* with the updater of the branch, and `return !isBookmarked`.
ToggleReturns(task) ==
    /\ component' =
          [component EXCEPT !.bookmarkedDocuments =
              IF task.isBookmarked THEN FilterOut(@, task.uri)
                                   ELSE Push(@, task.doc)]
    /\ observed' =
          [observed EXCEPT !.returned[task.uri] =
              IF ~task.isBookmarked THEN "true" ELSE "false"]

\* The getBookmarks of the service call returns; addBookmark resolves at
\* once when it finds the uri.
ToggleGetBookmarks(c) ==
    /\ tasks[c].pc = "getBookmarks"
    /\ LET read == TS_readOf(storage, tasks[c].op) IN
       IF TS_callsSetItem(tasks[c].op, read, tasks[c].uri)
       THEN /\ tasks' = [tasks EXCEPT ![c].pc = "setItem", ![c].read = read]
            /\ UNCHANGED <<component, observed>>
       ELSE /\ tasks' = [tasks EXCEPT ![c].pc = "done", ![c].read = read,
                                      ![c].status = "resolved"]
            /\ ToggleReturns(tasks[c])
    /\ UNCHANGED <<impl, storage, call, outcome, opened>>

\* The setItem of the service call lands and the invocation returns.
ToggleSetItemDone(c) ==
    /\ component.name = "useDocuments"
    /\ tasks[c].pc = "setItem"
    /\ storage' = TS_setItemOf(storage, tasks[c])
    /\ tasks' = [tasks EXCEPT ![c].pc = "done", ![c].status = "resolved"]
    /\ ToggleReturns(tasks[c])
    /\ UNCHANGED <<impl, call, outcome, opened>>

InitToggle ==
    /\ impl = "ts"
    /\ storage \in [StorageKeys -> {Null, JSON_stringify(<<>>)}]
    /\ call = Call("none", NoDoc, "", FALSE, FALSE)
    /\ outcome = NoOutcome
    /\ opened = [tracking |-> FALSE, docs |-> <<>>]
    /\ tasks = [c \in Callers |-> IdleToggle]
    /\ component = UseDocuments
    /\ observed = [calls |-> 0,
                   returned |-> [u \in {d.uri : d \in RaceDocs} |-> "none"]]

NextToggle ==
    \/ \E c \in Callers, d \in RaceDocs : ToggleBookmark(c, d)
    \/ \E c \in Callers : ToggleGetBookmarks(c)
    \/ \E c \in Callers : ToggleSetItemDone(c)

SpecToggle == InitToggle /\ [][NextToggle]_vars

(***************************************************************************)
(* loadDocuments of the hook.  The effect calls it on mount and again each *)
(* time its dependencies change; the hook's options keep their defaults    *)
(* but searchQuery (path and type null, sortBy 'name', sortDirection       *)
(* 'asc', limit 0, includeBookmarks and includeRecent false).  The storage *)
(* does not change in these executions.                                    *)
(***************************************************************************)
\* The rank of a character of the names in the order of the code units.
charCodeAt(ch) ==
    LET alphabet ==
           <<" ", ".", "a", "b", "c", "d", "e", "f", "g", "h", "i", "j", "k",
             "l", "m", "n", "o", "p", "q", "r", "s", "t", "u", "v", "w", "x",
             "y", "z">>
    IN  CHOOSE i \in 1..Len(alphabet) : alphabet[i] = ch

\* a > b of two strings.
GreaterThan(a, b) ==
    LET n == Min(Len(a), Len(b)) IN
    \/ \E i \in 1..n :
          /\ \A j \in 1..(i - 1) : a[j] = b[j]
          /\ charCodeAt(a[i]) > charCodeAt(b[i])
    \/ /\ \A j \in 1..n : a[j] = b[j]
       /\ Len(a) > Len(b)

\* String(aValue || '').toLowerCase() of the name.
SortValue(doc) ==
    IF doc.name = Undefined THEN <<>> ELSE toLowerCase(Chars(doc.name))

\* sortDocuments(docs, 'name', 'asc'): [...docs].sort with the comparator
\* `aValue > bValue ? 1 : -1`.  The names of one list are pairwise
\* different in these executions, so the order is the ascending one.
sortDocuments(docs) ==
    [i \in 1..Len(docs) |->
        CHOOSE d \in {docs[k] : k \in 1..Len(docs)} :
            Cardinality({k \in 1..Len(docs) :
                            GreaterThan(SortValue(d), SortValue(docs[k]))}) = i - 1]

\* The documents a loadDocuments call with this searchQuery awaits:
\* searchDocuments(searchQuery), or for '' getAllDocumentsByType(), which
\* gives the recent documents (Object.values(...).flat() of that array is
\* the array).
LoadedDocs(query) ==
    IF query = "" THEN TS_getRecentDocuments(storage, FALSE)
    ELSE TS_searchDocuments(storage, query, FALSE, FALSE).docs

\* The effect runs (on mount, or because searchQuery changed to `query`)
\* and calls loadDocuments: setIsLoading(true), setError(null), and the
\* call awaits its documents.
LoadDocuments(c, query) ==
    /\ impl = "ts"
    /\ component.name = "useDocuments"
    /\ tasks[c].pc \in {"idle", "done"}
    /\ IF observed.latest = "none" THEN query = component.searchQuery
                                   ELSE query # component.searchQuery
    /\ component' = [component EXCEPT !.searchQuery = query,
                                      !.isLoading = TRUE, !.error = "null"]
    /\ tasks' = [tasks EXCEPT ![c] = [pc |-> "await", op |-> "loadDocuments",
                                      query |-> query]]
    /\ observed' = [observed EXCEPT !.latest = c]
    /\ UNCHANGED <<impl, storage, call, outcome, opened>>

\* The awaited documents arrive: sort, setDocuments(docs), and the finally
\* block's setIsLoading(false).
LoadDocumentsResolves(c) ==
    /\ component.name = "useDocuments"
    /\ tasks[c].pc = "await"
    /\ component' = [component EXCEPT
                        !.documents = sortDocuments(LoadedDocs(tasks[c].query)),
                        !.isLoading = FALSE]
    /\ tasks' = [tasks EXCEPT ![c].pc = "done"]
    /\ UNCHANGED <<impl, storage, call, outcome, opened, observed>>

\* The hook mounts over a storage that holds some recent documents and
\* bookmarks; searchQuery is the option's value at mount.
InitLoad ==
    /\ impl = "ts"
    /\ \E r \in {<<>>, <<DocA>>, <<DocC, DocA>>},
          b \in {<<>>, <<DocR>>, <<DocB, DocC>>} :
          storage = [k \in StorageKeys |->
                        IF k = BOOKMARKS_STORAGE_KEY THEN JSON_stringify(b)
                                                     ELSE JSON_stringify(r)]
    /\ call = Call("none", NoDoc, "", FALSE, FALSE)
    /\ outcome = NoOutcome
    /\ opened = [tracking |-> FALSE, docs |-> <<>>]
    /\ tasks = [c \in Callers |->
                   [pc |-> "idle", op |-> "loadDocuments", query |-> ""]]
    /\ \E query \in Queries :
          component = [name |-> "useDocuments", documents |-> <<>>,
                       isLoading |-> TRUE, error |-> "null",
                       bookmarkedDocuments |-> <<>>, recentDocuments |-> <<>>,
                       searchQuery |-> query]
    /\ observed = [calls |-> 0, latest |-> "none"]

NextLoad ==
    \/ \E c \in Callers, query \in Queries : LoadDocuments(c, query)
    \/ \E c \in Callers : LoadDocumentsResolves(c)

SpecLoad == InitLoad /\ [][NextLoad]_vars

(***************************************************************************)
(* ThemeProvider (src/unnamed/part_005).  The provider keeps isDark and    *)
(* isInitialized; its effect starts loadThemePreference on mount, and      *)
(* setScheme starts saveThemePreference without awaiting it.  No storage   *)
(* fault in these executions.                                              *)
(***************************************************************************)
THEME_PREFERENCE_KEY == "@document_reader:theme_preference"

\* The argument type of setScheme.
Schemes == {"light", "dark", "auto"}

\* What useColorScheme() gives.
ColorSchemes == {"light", "dark", "null"}

\* The string AsyncStorage holds under a key.
StringValue(text) == [tag |-> "string", docs |-> <<>>, text |-> text]

LoadThemePreference == "loadThemePreference"

IdleSave == [pc |-> "idle", op |-> "saveThemePreference", scheme |-> "none"]

\* The provider as it mounts on a device with this colour scheme: the
\* useState initial values.
ThemeProvider(deviceColorScheme) ==
    [name |-> "ThemeProvider", deviceColorScheme |-> deviceColorScheme,
     isDark |-> deviceColorScheme = "dark", isInitialized |-> FALSE]

\* The effect's loadThemePreference has been called and awaits getItem.
LoadThemeTask(pc) == [pc |-> pc, op |-> LoadThemePreference, scheme |-> "none"]

\* `await AsyncStorage.getItem(THEME_PREFERENCE_KEY)` returns: setIsDark
\* from the saved string or, with none saved, from the device; then
\* setIsInitialized(true).
LoadThemePreferenceDone ==
    /\ component.name = "ThemeProvider"
    /\ tasks[LoadThemePreference].pc = "getItem"
    /\ LET savedTheme == getItem(storage, THEME_PREFERENCE_KEY, FALSE).value IN
       component' =
          [component EXCEPT
              !.isDark = IF savedTheme.tag # "null"
                         THEN savedTheme.text = "dark"
                         ELSE component.deviceColorScheme = "dark",
              !.isInitialized = TRUE]
    /\ tasks' = [tasks EXCEPT ![LoadThemePreference] = LoadThemeTask("done")]
    /\ UNCHANGED <<impl, storage, call, outcome, opened, observed>>

\* setScheme(scheme): setIsDark, and saveThemePreference(scheme) is
\* started and not awaited.
SetScheme(c, scheme) ==
    /\ component.name = "ThemeProvider"
    /\ c \in Callers
    /\ tasks[c].pc \in {"idle", "done"}
    /\ component' =
          [component EXCEPT
              !.isDark = IF scheme = "auto"
                         THEN component.deviceColorScheme = "dark"
                         ELSE scheme = "dark"]
    /\ tasks' = [tasks EXCEPT ![c] = [pc |-> "setItem",
                                      op |-> "saveThemePreference",
                                      scheme |-> scheme]]
    /\ observed' = [observed EXCEPT !.latest = c, !.landed = "none",
                                    !.scheme = scheme,
                                    !.isDark = component'.isDark,
                                    !.deviceColorScheme = component.deviceColorScheme,
                                    !.remounted = FALSE]
    /\ UNCHANGED <<impl, storage, call, outcome, opened>>

\* `await AsyncStorage.setItem(THEME_PREFERENCE_KEY, scheme)` lands.
SaveThemePreferenceDone(c) ==
    /\ component.name = "ThemeProvider"
    /\ c \in Callers
    /\ tasks[c].pc = "setItem"
    /\ storage' = setItem(storage, THEME_PREFERENCE_KEY,
                          StringValue(tasks[c].scheme), FALSE).storage
    /\ tasks' = [tasks EXCEPT ![c].pc = "done"]
    /\ observed' = [observed EXCEPT !.landed = c]
    /\ UNCHANGED <<impl, call, outcome, opened, component>>

\* The provider is mounted again (the app restarts) once the saves have
\* landed: fresh state, and the effect starts loadThemePreference.
Remount(deviceColorScheme) ==
    /\ component.name = "ThemeProvider"
    /\ \A c \in Callers : tasks[c].pc \in {"idle", "done"}
    /\ component' = ThemeProvider(deviceColorScheme)
    /\ tasks' = [c \in DOMAIN tasks |->
                    IF c = LoadThemePreference THEN LoadThemeTask("getItem")
                    ELSE IdleSave]
    /\ observed' = [observed EXCEPT
                       !.remounted = observed.latest # "none"
                                       /\ observed.landed = observed.latest]
    /\ UNCHANGED <<impl, storage, call, outcome, opened>>

InitTheme ==
    /\ impl = "ts"
    /\ storage = [k \in {THEME_PREFERENCE_KEY} |-> Null]
    /\ call = Call("none", NoDoc, "", FALSE, FALSE)
    /\ outcome = NoOutcome
    /\ opened = [tracking |-> FALSE, docs |-> <<>>]
    /\ tasks = [c \in Callers \cup {LoadThemePreference} |->
                   IF c = LoadThemePreference THEN LoadThemeTask("getItem")
                   ELSE IdleSave]
    /\ \E deviceColorScheme \in ColorSchemes :
          component = ThemeProvider(deviceColorScheme)
    /\ observed = [calls |-> 0, latest |-> "none", landed |-> "none",
                   scheme |-> "none", isDark |-> FALSE,
                   deviceColorScheme |-> "null", remounted |-> FALSE]

NextTheme ==
    \/ LoadThemePreferenceDone
    \/ \E c \in Callers, scheme \in Schemes : SetScheme(c, scheme)
    \/ \E c \in Callers : SaveThemePreferenceDone(c)
    \/ \E deviceColorScheme \in ColorSchemes : Remount(deviceColorScheme)

SpecTheme == InitTheme /\ [][NextTheme]_vars

(***************************************************************************)
(* The two services side by side: the same calls, made one after another   *)
(* and with no storage fault, on the TS service (over `storage`) and on    *)
(* the JS service (over its own AsyncStorage, observed.js), both starting  *)
(* with nothing stored.                                                    *)
(***************************************************************************)
BothAddBookmark(d, now) ==
    /\ impl = "both"
    /\ call' = Call("addBookmark", d, d.uri, FALSE, FALSE)
    /\ storage' = TS_addBookmark(storage, d, FALSE, FALSE).storage
    /\ observed' = [observed EXCEPT !.js =
                       JS_addBookmark(@, d.uri, d.name, d.type, now,
                                      FALSE, FALSE).storage]
    /\ UNCHANGED <<impl, outcome, opened, tasks, component>>

BothRemoveBookmark(uri) ==
    /\ impl = "both"
    /\ call' = Call("removeBookmark", NoDoc, uri, FALSE, FALSE)
    /\ storage' = TS_removeBookmark(storage, uri, FALSE, FALSE).storage
    /\ observed' = [observed EXCEPT !.js =
                       JS_removeBookmark(@, uri, FALSE, FALSE).storage]
    /\ UNCHANGED <<impl, outcome, opened, tasks, component>>

BothAddToRecentDocuments(d, now) ==
    /\ impl = "both"
    /\ call' = Call("addToRecentDocuments", d, d.uri, FALSE, FALSE)
    /\ storage' = TS_addToRecentDocuments(storage, d, FALSE, FALSE).storage
    /\ observed' = [observed EXCEPT !.js =
                       JS_addToRecentDocuments(@, d, now, FALSE, FALSE).storage]
    /\ UNCHANGED <<impl, outcome, opened, tasks, component>>

BothClearRecentDocuments ==
    /\ impl = "both"
    /\ call' = Call("clearRecentDocuments", NoDoc, "", FALSE, FALSE)
    /\ storage' = TS_clearRecentDocuments(storage, FALSE).storage
    /\ observed' = [observed EXCEPT !.js =
                       JS_clearRecentDocuments(@, FALSE).storage]
    /\ UNCHANGED <<impl, outcome, opened, tasks, component>>

InitBoth ==
    /\ impl = "both"
    /\ storage = [k \in StorageKeys |-> Null]
    /\ call = Call("none", NoDoc, "", FALSE, FALSE)
    /\ outcome = NoOutcome
    /\ opened = [tracking |-> FALSE, docs |-> <<>>]
    /\ tasks = [c \in Callers |-> IdleTask]
    /\ component = Unmounted
    /\ observed = [calls |-> 0, js |-> [k \in StorageKeys |-> Null]]

NextBoth ==
    \/ \E d \in DocumentInfos, now \in Times : BothAddBookmark(d, now)
    \/ \E uri \in Uris : BothRemoveBookmark(uri)
    \/ \E d \in DocumentInfos, now \in Times : BothAddToRecentDocuments(d, now)
    \/ BothClearRecentDocuments

SpecBoth == InitBoth /\ [][NextBoth]_vars

(***************************************************************************)
(* DocumentViewerScreen (src/app/document-viewer.ts): the effect's         *)
(* loadDocument, over the TS service, with storage faults.  Each await is  *)
(* one step; the screen is mounted anew for each document viewed.          *)
(***************************************************************************)
LoadDocument == "loadDocument"

\* The route params: of a document, or without uri.
ViewerDocs == {DocA, DocB}

ViewerParams ==
    {[uri |-> d.uri, name |-> d.name, type |-> d.type] : d \in ViewerDocs}
       \cup {[uri |-> Undefined, name |-> Undefined, type |-> Undefined]}

\* What FileSystem.getInfoAsync(uri) does.
GetInfoAsync == {"exists", "missing", "throws"}

\* FileSystemService.getDocumentInfo(uri): the record of the file, or null
\* when the file does not exist or getInfoAsync throws.
FileSystemService_getDocumentInfo(uri, info) ==
    IF info = "exists"
    THEN [isNull |-> FALSE, doc |-> CHOOSE d \in ViewerDocs : d.uri = uri]
    ELSE [isNull |-> TRUE, doc |-> NoDoc]

\* DocumentService.getDocumentInfo(uri, name, type): the record of the
\* file, or the fallback made of the arguments.
TS_getDocumentInfo(uri, name, type, info) ==
    LET fileInfo == FileSystemService_getDocumentInfo(uri, info) IN
    IF ~fileInfo.isNull THEN fileInfo.doc
    ELSE [name |-> name, type |-> type, uri |-> uri, size |-> "Unknown",
          lastModified |-> DateISO]

\* The screen as it mounts with these params: the useState initial values.
DocumentViewerScreen(params) ==
    [name |-> "DocumentViewerScreen", params |-> params, isLoading |-> TRUE,
     isBookmarked |-> FALSE, documentInfo |-> NoDoc, error |-> "null"]

LoadTask(pc) == [pc |-> pc, op |-> LoadDocument]

\* The effect calls loadDocument: without uri it sets the error and
\* returns; otherwise it awaits getDocumentInfo.
LoadDocumentStarts ==
    /\ component.name = "DocumentViewerScreen"
    /\ tasks[LoadDocument].pc = "start"
    /\ IF component.params.uri = Undefined
       THEN /\ component' = [component EXCEPT
                                !.error = "No document URI provided",
                                !.isLoading = FALSE]
            /\ tasks' = [tasks EXCEPT ![LoadDocument] = LoadTask("done")]
       ELSE /\ component' = component
            /\ tasks' = [tasks EXCEPT ![LoadDocument] =
                            LoadTask("getDocumentInfo")]
    /\ UNCHANGED <<impl, storage, call, outcome, opened, observed>>

\* The catch block: setError('Failed to load document'),
\* setIsLoading(false).
LoadDocumentCatch(awaited) ==
    /\ component' = [component EXCEPT !.error = "Failed to load document",
                                      !.isLoading = FALSE]
    /\ tasks' = [tasks EXCEPT ![LoadDocument] = LoadTask("done")]
    /\ observed' = [observed EXCEPT !.rejected = awaited]

\* `await DocumentService.getDocumentInfo(uri, name, type)` returns:
\* setDocumentInfo(docInfo), and addToRecentDocuments(docInfo) is awaited.
GetDocumentInfoSettles(info) ==
    /\ component.name = "DocumentViewerScreen"
    /\ tasks[LoadDocument].pc = "getDocumentInfo"
    /\ component' =
          [component EXCEPT !.documentInfo =
              TS_getDocumentInfo(component.params.uri, component.params.name,
                                 component.params.type, info)]
    /\ tasks' = [tasks EXCEPT ![LoadDocument] = LoadTask("addToRecentDocuments")]
    /\ UNCHANGED <<impl, storage, call, outcome, opened, observed>>

\* Mutant: a rejected addToRecentDocuments is ignored and loadDocument
\* goes on.
AddToRecentDocumentsSettles_Ignored(getFails, setFails) ==
    /\ component.name = "DocumentViewerScreen"
    /\ tasks[LoadDocument].pc = "addToRecentDocuments"
    /\ LET result == TS_addToRecentDocuments(storage, component.documentInfo,
                                             getFails, setFails)
       IN  /\ storage' = result.storage
           /\ tasks' = [tasks EXCEPT ![LoadDocument] =
                           LoadTask("isDocumentBookmarked")]
           /\ observed' = [observed EXCEPT !.rejected =
                              IF result.status = "rejected"
                              THEN "addToRecentDocuments" ELSE @]
           /\ component' = component
    /\ UNCHANGED <<impl, call, outcome, opened>>

\* `await DocumentService.addToRecentDocuments(docInfo)` settles: rejected,
\* the catch block runs; resolved, isDocumentBookmarked(uri) is awaited.
AddToRecentDocumentsSettles(getFails, setFails) ==
    /\ component.name = "DocumentViewerScreen"
    /\ tasks[LoadDocument].pc = "addToRecentDocuments"
    /\ LET result == TS_addToRecentDocuments(storage, component.documentInfo,
                                             getFails, setFails)
       IN  /\ storage' = result.storage
           /\ IF result.status = "rejected"
              THEN LoadDocumentCatch("addToRecentDocuments")
              ELSE /\ tasks' = [tasks EXCEPT ![LoadDocument] =
                                   LoadTask("isDocumentBookmarked")]
                   /\ UNCHANGED <<component, observed>>
    /\ UNCHANGED <<impl, call, outcome, opened>>

\* `await DocumentService.isDocumentBookmarked(uri)` settles: rejected, the
\* catch block runs; resolved, setIsBookmarked(bookmarked) and
\* setIsLoading(false).
IsDocumentBookmarkedSettles(getFails) ==
    /\ component.name = "DocumentViewerScreen"
    /\ tasks[LoadDocument].pc = "isDocumentBookmarked"
    /\ LET result == TS_isDocumentBookmarked(storage, component.params.uri,
                                             getFails)
       IN  IF result.status = "rejected"
           THEN LoadDocumentCatch("isDocumentBookmarked")
           ELSE /\ component' = [component EXCEPT !.isBookmarked = result.ret,
                                                  !.isLoading = FALSE]
                /\ tasks' = [tasks EXCEPT ![LoadDocument] = LoadTask("done")]
                /\ observed' = observed
    /\ UNCHANGED <<impl, storage, call, outcome, opened>>

\* The user leaves and the screen is mounted for another document.
MountViewer(params) ==
    /\ component.name = "DocumentViewerScreen"
    /\ tasks[LoadDocument].pc = "done"
    /\ component' = DocumentViewerScreen(params)
    /\ tasks' = [tasks EXCEPT ![LoadDocument] = LoadTask("start")]
    /\ observed' = [observed EXCEPT !.rejected = "none"]
    /\ UNCHANGED <<impl, storage, call, outcome, opened>>

InitViewer ==
    /\ impl = "ts"
    /\ \E b \in {Null, Corrupt, JSON_stringify(<<DocA>>)} :
          storage = [k \in StorageKeys |->
                        IF k = BOOKMARKS_STORAGE_KEY THEN b ELSE Null]
    /\ call = Call("none", NoDoc, "", FALSE, FALSE)
    /\ outcome = NoOutcome
    /\ opened = [tracking |-> FALSE, docs |-> <<>>]
    /\ tasks = [l \in {LoadDocument} |-> LoadTask("start")]
    /\ \E params \in ViewerParams : component = DocumentViewerScreen(params)
    /\ observed = [calls |-> 0, rejected |-> "none"]

\* The steps of a run of loadDocument.
LoadDocumentStep ==
    \/ LoadDocumentStarts
    \/ \E info \in GetInfoAsync : GetDocumentInfoSettles(info)
    \/ \E getFails \in BOOLEAN, setFails \in BOOLEAN :
          AddToRecentDocumentsSettles(getFails, setFails)
    \/ \E getFails \in BOOLEAN : IsDocumentBookmarkedSettles(getFails)

NextViewer ==
    \/ LoadDocumentStep
    \/ \E params \in ViewerParams : MountViewer(params)

SpecViewer == InitViewer /\ [][NextViewer]_vars

\* Every awaited call settles in the end, and React runs the effect.
SpecViewerFair == SpecViewer /\ WF_vars(LoadDocumentStep)

(***************************************************************************)
(* Searches of the TS service, among failure-free calls made one after     *)
(* another.                                                                *)
(***************************************************************************)
SearchCall(query) ==
    [op |-> "searchDocuments", doc |-> NoDoc, uri |-> "",
     getFails |-> FALSE, setFails |-> FALSE, query |-> query]

SearchDocuments(query) ==
    /\ impl = "ts"
    /\ call' = SearchCall(query)
    /\ Returns(TS_searchDocuments(storage, query, FALSE, FALSE))

InitSearch ==
    /\ InitFailureFree
    /\ impl = "ts"

NextSearch ==
    \/ \E d \in SearchDocs, t \in Times : AddBookmark(d, t, FALSE, FALSE)
    \/ \E d \in SearchDocs : RemoveBookmark(d.uri, FALSE, FALSE)
    \/ \E d \in SearchDocs, t \in Times : AddToRecentDocuments(d, t, FALSE, FALSE)
    \/ ClearRecentDocuments(FALSE)
    \/ \E query \in Queries : SearchDocuments(query)

SpecSearch == InitSearch /\ [][NextSearch]_vars

(***************************************************************************)
(* Failure-free calls, one after another, of callers that also hand over   *)
(* records without uri or without name (JavaScript callers, or values      *)
(* cast to DocumentInfo).                                                  *)
(***************************************************************************)
NextUnchecked ==
    \/ \E d \in UncheckedInfos, t \in Times : AddBookmark(d, t, FALSE, FALSE)
    \/ \E d \in UncheckedInfos : RemoveBookmark(d.uri, FALSE, FALSE)
    \/ \E d \in UncheckedInfos, t \in Times :
          AddToRecentDocuments(d, t, FALSE, FALSE)
    \/ ClearRecentDocuments(FALSE)

SpecUnchecked == InitFailureFree /\ [][NextUnchecked]_vars

(***************************************************************************)
(* Failure-free calls of the TS service, one after another, with records   *)
(* that carry a property JSON has no type for.                             *)
(***************************************************************************)
NextRoundTrip ==
    \/ \E d \in RoundTripInfos, t \in Times : AddBookmark(d, t, FALSE, FALSE)
    \/ \E d \in RoundTripInfos : RemoveBookmark(d.uri, FALSE, FALSE)
    \/ GetBookmarks(FALSE)
    \/ \E d \in RoundTripInfos, t \in Times :
          AddToRecentDocuments(d, t, FALSE, FALSE)
    \/ GetRecentDocuments(FALSE)
    \/ ClearRecentDocuments(FALSE)

SpecRoundTrip == InitSearch /\ [][NextRoundTrip]_vars

(***************************************************************************)
(* Vocabulary of the properties.                                           *)
(***************************************************************************)
\* The lists as persisted: the array stored under the key (empty when the
\* key holds no array).
Recent == JSON_parse(storage[RECENT_DOCUMENTS_STORAGE_KEY]).docs

Bookmarks == JSON_parse(storage[BOOKMARKS_STORAGE_KEY]).docs

CountUri(docs, uri) == Cardinality({i \in 1..Len(docs) : docs[i].uri = uri})

UniqueByUri(docs) ==
    \A i, j \in 1..Len(docs) : docs[i].uri = docs[j].uri => i = j

\* The entries of docs with another uri, in their order.
RECURSIVE OthersOf(_, _)
OthersOf(docs, uri) ==
    IF docs = <<>> THEN <<>>
    ELSE IF Head(docs).uri = uri THEN OthersOf(Tail(docs), uri)
    ELSE <<Head(docs)>> \o OthersOf(Tail(docs), uri)

FirstN(docs, n) == SubSeq(docs, 1, IF n < Len(docs) THEN n ELSE Len(docs))

\* The stored record carries every field of d with d's value (the JS
\* service adds accessedAt to it).
Carries(stored, d) ==
    /\ DOMAIN d \subseteq DOMAIN stored
    /\ \A f \in DOMAIN d : stored[f] = d[f]

Mutating ==
    {"addBookmark", "removeBookmark", "addToRecentDocuments", "clearRecentDocuments"}

\* The call reported success: the TS promise resolved; the JS promise
\* resolved, to true for a mutating operation.
Succeeded ==
    /\ outcome.status = "resolved"
    /\ (impl = "js" /\ call.op \in Mutating) => outcome.ret

(***************************************************************************)
(* C1.  Move-to-front on re-insert.                                        *)
(***************************************************************************)
\* After a successful addToRecentDocuments(r): one entry with r.uri, at
\* index 0, carrying r.
C1_Front ==
    /\ Len(Recent') >= 1
    /\ Carries(Recent'[1], call'.doc)
    /\ CountUri(Recent', call'.uri) = 1

\* A second call in a row with the same uri does not grow the list.
C1_Repeat ==
    (call.op = "addToRecentDocuments" /\ Succeeded /\ call.uri = call'.uri)
        => Len(Recent') = Len(Recent)

\* C1 as stated: (failure-free, both services) after addToRecentDocuments(r)
\* the Recent list has exactly one entry with r.uri, at index 0, followed
\* by the entries of the previous list with another uri, in their order;
\* repeating the call does not grow the list.
C1_AsStated ==
    [][(call'.op = "addToRecentDocuments" /\ Succeeded')
          => /\ C1_Front
             /\ Tail(Recent') = OthersOf(Recent, call'.uri)
             /\ C1_Repeat]_vars

\* C1 amended: the entries after index 0 are the entries of the previous
\* list with another uri, in their order, cut to the first
\* MAX_RECENT_DOCUMENTS - 1 of them; nothing is cut when r.uri was in the
\* previous list.
C1_MoveToFront ==
    [][(call'.op = "addToRecentDocuments" /\ Succeeded')
          => /\ C1_Front
             /\ Tail(Recent') =
                   FirstN(OthersOf(Recent, call'.uri), MAX_RECENT_DOCUMENTS - 1)
             /\ CountUri(Recent, call'.uri) >= 1
                   => Tail(Recent') = OthersOf(Recent, call'.uri)
             /\ C1_Repeat]_vars

\* A record already in a full list was opened again, with other metadata,
\* and stands at index 0, the other entry behind it.
C1_Witness ==
    /\ call.op = "addToRecentDocuments"
    /\ call.doc = DocA2
    /\ Succeeded
    /\ Len(Recent) = MAX_RECENT_DOCUMENTS
    /\ Len(Recent) >= 2
    /\ Recent[1].name = DocA2.name
    /\ ~opened.tracking

(***************************************************************************)
(* C2.  Recent uniqueness invariant.                                       *)
(***************************************************************************)
\* C2: no two entries of the persisted Recent list have the same uri, in
\* every state reached by calls made one after another (storage faults
\* included), in both services.
C2_RecentUnique == UniqueByUri(Recent)

\* A document was opened again (tracking of distinct opens has stopped)
\* and the list holds two entries.
C2_Witness ==
    /\ call.op = "addToRecentDocuments"
    /\ ~call.getFails /\ ~call.setFails
    /\ Succeeded
    /\ ~opened.tracking
    /\ Len(Recent) = 2
    /\ Recent[1].uri = call.uri

(***************************************************************************)
(* C3.  Recent capacity invariant.                                         *)
(***************************************************************************)
\* C3: the persisted Recent list never has more than MAX_RECENT_DOCUMENTS
\* entries (storage faults included, both services).
C3_RecentBounded == Len(Recent) <= MAX_RECENT_DOCUMENTS

\* More distinct documents than the capacity were opened and the list is
\* full.
C3_Witness ==
    /\ opened.tracking
    /\ Len(opened.docs) > MAX_RECENT_DOCUMENTS
    /\ Len(Recent) = MAX_RECENT_DOCUMENTS

(***************************************************************************)
(* C4.  Capacity eviction order.                                           *)
(***************************************************************************)
\* The i-th most recently opened record, i = 1 for the last one.
LastOpened(i) == opened.docs[Len(opened.docs) - i + 1]

\* C4: after n records of pairwise distinct uris were opened from an empty
\* Recent list (failure-free), the list holds the min(n, MAX_RECENT_DOCUMENTS)
\* most recently opened records, most recent first; with
\* n = MAX_RECENT_DOCUMENTS + k, k >= 1, these are exactly
\* MAX_RECENT_DOCUMENTS entries and the k oldest are absent.
C4_EvictionOrder ==
    opened.tracking =>
        LET n == Len(opened.docs)
            kept == IF n < MAX_RECENT_DOCUMENTS THEN n ELSE MAX_RECENT_DOCUMENTS
        IN  /\ Len(Recent) = kept
            /\ \A i \in 1..kept : Carries(Recent[i], LastOpened(i))
            /\ \A j \in 1..(n - kept) : CountUri(Recent, opened.docs[j].uri) = 0

\* X, Y, Z opened with a capacity of two: one record was evicted.
C4_Witness ==
    /\ opened.tracking
    /\ call.op = "addToRecentDocuments"
    /\ Len(opened.docs) = MAX_RECENT_DOCUMENTS + 1
    /\ Len(Recent) = MAX_RECENT_DOCUMENTS
    /\ Recent[1].uri = call.uri
    /\ CountUri(Recent, opened.docs[1].uri) = 0

C6_BookmarksUnique ==
    /\ [](UniqueByUri(Bookmarks))
    /\ [][(/\ call'.op = "addBookmark"
           /\ ~call'.getFails /\ ~call'.setFails
           /\ storage[BOOKMARKS_STORAGE_KEY] # Corrupt
           /\ CountUri(Bookmarks, call'.uri) = 0)
             => Len(Bookmarks') = Len(Bookmarks) + 1]_vars

\* Every document is bookmarked: more entries than the Recent list can
\* hold.
C6_Witness ==
    /\ call.op = "addBookmark"
    /\ Succeeded
    /\ Len(Bookmarks) = Cardinality({d.uri : d \in DocumentInfos})
    /\ Len(Bookmarks) > MAX_RECENT_DOCUMENTS

C8_RemoveBookmark ==
    [][call'.op = "removeBookmark"
          => /\ Succeeded'
             /\ CountUri(Bookmarks', call'.uri) = 0
             /\ Bookmarks' = OthersOf(Bookmarks, call'.uri)
             /\ CountUri(Bookmarks, call'.uri) = 0
                  => Bookmarks' = Bookmarks]_vars

\* removeBookmark("nonexistent") was called on a list of two bookmarks.
C8_Witness ==
    /\ call.op = "removeBookmark"
    /\ call.uri = "nonexistent"
    /\ Succeeded
    /\ Len(Bookmarks) >= 2

(***************************************************************************)
(* C9.  isDocumentBookmarked.                                              *)
(***************************************************************************)
\* C9: isDocumentBookmarked(uri) always resolves; it gives true exactly
\* when the bookmarks key can be read and the persisted list holds a
\* record with the uri (false when the read fails or the value is not
\* JSON); so true right after a successful addBookmark of the uri and
\* false right after a successful removeBookmark of it.
C9_IsDocumentBookmarked ==
    [][call'.op = "isDocumentBookmarked"
          => /\ outcome'.status = "resolved"
             /\ outcome'.ret <=>
                   (~call'.getFails /\ CountUri(Bookmarks, call'.uri) >= 1)
             /\ (call.op = "addBookmark" /\ Succeeded
                   /\ call.uri = call'.uri /\ ~call'.getFails)
                  => outcome'.ret
             /\ (call.op = "removeBookmark" /\ Succeeded /\ call.uri = call'.uri)
                  => ~outcome'.ret]_vars

\* The read failed while the uri was bookmarked: the query resolved to
\* false.
C9_Witness ==
    /\ call.op = "isDocumentBookmarked"
    /\ call.getFails
    /\ CountUri(Bookmarks, call.uri) = 1
    /\ outcome.status = "resolved"
    /\ ~outcome.ret

(***************************************************************************)
(* C10.  The two lists are independent.                                    *)
(***************************************************************************)
\* C10: addBookmark and removeBookmark leave the value under the
\* recentDocuments key as it is, addToRecentDocuments and
\* clearRecentDocuments leave the value under the bookmarks key as it is,
\* and no call changes both keys (storage faults included, both services).
C10_Independent ==
    [][/\ call'.op \in {"addBookmark", "removeBookmark"}
            => storage'[RECENT_DOCUMENTS_STORAGE_KEY]
                  = storage[RECENT_DOCUMENTS_STORAGE_KEY]
       /\ call'.op \in {"addToRecentDocuments", "clearRecentDocuments"}
            => storage'[BOOKMARKS_STORAGE_KEY] = storage[BOOKMARKS_STORAGE_KEY]
       /\ \/ storage'[RECENT_DOCUMENTS_STORAGE_KEY]
                  = storage[RECENT_DOCUMENTS_STORAGE_KEY]
          \/ storage'[BOOKMARKS_STORAGE_KEY] = storage[BOOKMARKS_STORAGE_KEY]]_vars

\* addToRecent(A), addBookmark(A), removeBookmark(A.uri): Recent is [A].
C10_Witness ==
    /\ call.op = "removeBookmark"
    /\ call.uri = DocA.uri
    /\ Succeeded
    /\ Bookmarks = <<>>
    /\ Len(Recent) = 1
    /\ Carries(Recent[1], DocA)

(***************************************************************************)
(* C11.  clearRecentDocuments empties the list and is idempotent.          *)
(***************************************************************************)
\* C11: (both services, storage faults included) after a
\* clearRecentDocuments that reported success the recentDocuments key holds
\* the empty array, whatever it held before, and a getRecentDocuments made
\* next returns the empty list; a second successful clearRecentDocuments in
\* a row leaves the storage as the first left it.
C11_ClearRecentDocuments ==
    [][/\ (call'.op = "clearRecentDocuments" /\ Succeeded')
            => /\ storage'[RECENT_DOCUMENTS_STORAGE_KEY] = JSON_stringify(<<>>)
               /\ (call.op = "clearRecentDocuments" /\ Succeeded)
                     => storage' = storage
       /\ (call.op = "clearRecentDocuments" /\ Succeeded
             /\ call'.op = "getRecentDocuments")
            => outcome'.docs = <<>>]_vars

\* clearRecentDocuments reported success: the key holds the empty array
\* and the bookmarks are still there.
C11_Witness ==
    /\ call.op = "clearRecentDocuments"
    /\ Succeeded
    /\ storage[RECENT_DOCUMENTS_STORAGE_KEY] = JSON_stringify(<<>>)
    /\ opened.docs = <<>>
    /\ Len(Bookmarks) >= 2

(***************************************************************************)
(* C12.  Reads fail open.                                                  *)
(***************************************************************************)
\* What a read of `key` gives when getItem fails, when the key holds
\* nothing and when it holds a string that is not JSON: the empty list;
\* otherwise the stored array, in its order.
C12_Expected(key, getFails) ==
    IF getFails \/ storage[key] = Null \/ storage[key] = Corrupt
    THEN <<>>
    ELSE JSON_parse(storage[key]).docs

\* C12: (both services) getRecentDocuments and getBookmarks always resolve,
\* never reject; they return the empty list when the key is absent, when
\* getItem fails and when the stored string is not JSON, and the stored
\* list in stored order otherwise.
C12_ReadsFailOpen ==
    [][/\ call'.op = "getRecentDocuments"
            => /\ outcome'.status = "resolved"
               /\ outcome'.docs =
                     C12_Expected(RECENT_DOCUMENTS_STORAGE_KEY, call'.getFails)
       /\ call'.op = "getBookmarks"
            => /\ outcome'.status = "resolved"
               /\ outcome'.docs =
                     C12_Expected(BOOKMARKS_STORAGE_KEY, call'.getFails)]_vars

\* getItem failed while two documents were in the Recent list: the read
\* resolved to the empty list.
C12_Witness ==
    /\ call.op = "getRecentDocuments"
    /\ call.getFails
    /\ Len(Recent) = 2
    /\ outcome.status = "resolved"
    /\ outcome.docs = <<>>

(***************************************************************************)
(* C13.  Writes fail loud.                                                 *)
(***************************************************************************)
\* The key a mutating operation works on.
C13_KeyOf(op) ==
    IF op \in {"addBookmark", "removeBookmark"}
    THEN BOOKMARKS_STORAGE_KEY ELSE RECENT_DOCUMENTS_STORAGE_KEY

\* The call call' gets as far as Storage.setItem from the current state:
\* clearRecentDocuments always; the TS operations always but for an
\* addBookmark that finds the uri; the JS operations when the list could
\* be loaded, but for an addBookmark that finds the uri.
C13_SetItemCalled ==
    LET op == call'.op
        unreadable == call'.getFails \/ storage[C13_KeyOf(op)] = Corrupt
        found == CountUri(JSON_parse(storage[C13_KeyOf(op)]).docs, call'.uri) >= 1
    IN  CASE op = "clearRecentDocuments" -> TRUE
          [] op = "addBookmark" ->
                IF impl = "ts" THEN unreadable \/ ~found
                               ELSE ~unreadable /\ ~found
          [] op \in {"removeBookmark", "addToRecentDocuments"} ->
                impl = "ts" \/ ~unreadable
          [] OTHER -> FALSE

\* What a mutating call that reported success has left in the storage.
C13_Persisted ==
    CASE call'.op = "addBookmark" -> CountUri(Bookmarks', call'.uri) = 1
      [] call'.op = "removeBookmark" -> CountUri(Bookmarks', call'.uri) = 0
      [] call'.op = "addToRecentDocuments" ->
            Len(Recent') >= 1 /\ Recent'[1].uri = call'.uri
      [] call'.op = "clearRecentDocuments" ->
            storage'[RECENT_DOCUMENTS_STORAGE_KEY] = JSON_stringify(<<>>)
      [] OTHER -> TRUE

\* C13: when Storage.setItem fails inside addBookmark, removeBookmark,
\* addToRecentDocuments or clearRecentDocuments the call reports the
\* failure (TS: the promise rejects; JS: it resolves to false) and stores
\* nothing; and a call that reports success has persisted its mutation.
C13_WritesFailLoud ==
    [][call'.op \in Mutating
          => /\ (call'.setFails /\ C13_SetItemCalled)
                  => /\ ~Succeeded'
                     /\ storage' = storage
                     /\ impl = "ts" => outcome'.status = "rejected"
                     /\ impl = "js" => (outcome'.status = "resolved"
                                          /\ ~outcome'.ret)
             /\ Succeeded' => C13_Persisted]_vars

\* setItem failed in a removeBookmark of a bookmarked uri: the call
\* reported the failure and the record is still bookmarked.
C13_Witness ==
    /\ call.op = "removeBookmark"
    /\ call.setFails
    /\ ~call.getFails
    /\ ~Succeeded
    /\ CountUri(Bookmarks, call.uri) = 1
    /\ Len(Bookmarks) >= 2

(***************************************************************************)
(* C14.  Lost update when two TS calls overlap.                            *)
(***************************************************************************)
\* The caller's setItem lands in this step.
C14_Lands(c) == tasks[c].pc = "setItem" /\ tasks'[c].pc = "done"

\* C14: (TS service) the read-modify-write of addBookmark, removeBookmark
\* and addToRecentDocuments is not atomic: when the setItem of a call
\* lands, the call resolves and the key holds the array computed from
\* what the call read, whatever was written to the key since; so after an
\* addBookmark(x) the list holds x and the records the call had read, and
\* a record another call added in between is lost though that call
\* resolved too.
C14_LostUpdate ==
    [][\A c \in Callers : C14_Lands(c) =>
          LET t == tasks[c] IN
          /\ tasks'[c].status = "resolved"
          /\ t.op = "addBookmark"
                => /\ Bookmarks' = <<t.doc>> \o t.read
                   /\ \A d \in RaceDocs :
                         CountUri(Bookmarks', d.uri) >= 1
                            <=> (d.uri = t.uri \/ Some(t.read, d.uri))
          /\ t.op = "removeBookmark"
                => Bookmarks' = OthersOf(t.read, t.uri)
          /\ t.op = "addToRecentDocuments"
                => Recent' = FirstN(<<t.doc>> \o OthersOf(t.read, t.uri),
                                    MAX_RECENT_DOCUMENTS)]_vars

\* addBookmark(DocA) and addBookmark(DocB) overlapped on an empty list:
\* both read it before either wrote, both resolved, and the list holds
\* DocB only.
C14_Witness ==
    /\ tasks["caller1"].op = "addBookmark" /\ tasks["caller1"].doc = DocA
    /\ tasks["caller2"].op = "addBookmark" /\ tasks["caller2"].doc = DocB
    /\ \A c \in Callers :
          /\ tasks[c].pc = "done"
          /\ tasks[c].status = "resolved"
          /\ tasks[c].read = <<>>
    /\ tasks["caller2"].stale
    /\ Bookmarks = <<DocB>>

(***************************************************************************)
(* C15.  Bookmark lifecycle of the TS service.                             *)
(***************************************************************************)
\* C15: (TS service, calls made one after another, getItem failures and
\* unparsable values included) a record of the persisted Bookmarks list
\* stays in the list until removeBookmark is called with its uri: no other
\* call takes it out.
C15_BookmarkLifecycle ==
    [][impl = "ts"
          => \A i \in 1..Len(Bookmarks) :
                ~(call'.op = "removeBookmark" /\ call'.uri = Bookmarks[i].uri)
                   => \E j \in 1..Len(Bookmarks') :
                         Bookmarks'[j] = Bookmarks[i]]_vars

(***************************************************************************)
(* C16.  Recent lifecycle.                                                 *)
(***************************************************************************)
\* C16: (both services, calls one after another, failure-free) a uri of
\* the persisted Recent list leaves the list only by clearRecentDocuments,
\* or by an addToRecentDocuments of another uri that is not in the list,
\* made while the list holds MAX_RECENT_DOCUMENTS entries, the leaving uri
\* being the last entry.  No other call, and no add of a uri already in
\* the list, takes an entry out.
C16_RecentLifecycle ==
    [][\A i \in 1..Len(Recent) :
          CountUri(Recent', Recent[i].uri) = 0
             => \/ call'.op = "clearRecentDocuments"
                \/ /\ call'.op = "addToRecentDocuments"
                   /\ call'.uri # Recent[i].uri
                   /\ CountUri(Recent, call'.uri) = 0
                   /\ Len(Recent) = MAX_RECENT_DOCUMENTS
                   /\ i = Len(Recent)]_vars

\* A third document was opened with a full list: the oldest left the
\* Recent list, and is still bookmarked.
C16_Witness ==
    /\ call.op = "addToRecentDocuments"
    /\ opened.tracking
    /\ Len(opened.docs) = MAX_RECENT_DOCUMENTS + 1
    /\ CountUri(Recent, opened.docs[1].uri) = 0
    /\ CountUri(Bookmarks, opened.docs[1].uri) = 1
    /\ Len(Recent) = MAX_RECENT_DOCUMENTS

(***************************************************************************)
(* C17.  searchDocuments of the TS service.                                *)
(***************************************************************************)
\* The first occurrence of each uri of docs, in the order of docs.
RECURSIVE C17_FirstOccurrences(_)
C17_FirstOccurrences(docs) ==
    IF docs = <<>> THEN <<>>
    ELSE LET front == C17_FirstOccurrences(SubSeq(docs, 1, Len(docs) - 1))
             last == docs[Len(docs)]
         IN  IF Some(front, last.uri) THEN front ELSE Append(front, last)

\* Whether the name or the type of the record contains the query,
\* ignoring case, written out for the records and queries of the model:
\* "Report.pdf"/"pdf", "renamed.txt"/"txt" and "Report"/"pdf".
C17_Matches(doc, query) ==
    CASE query = "PDF"    -> doc.type = "pdf"
      [] query = "txt"    -> doc.name = "renamed.txt"
      [] query = "report" -> doc.name \in {"Report.pdf", "Report"}
      [] query = " "      -> FALSE
      [] query = ""       -> TRUE

\* C17: (TS service, failure-free) searchDocuments(query) returns the
\* Recent list followed by the Bookmarks list, each uri kept at its first
\* occurrence only (the Recent copy wins), cut down to the records whose
\* name or type contains the query ignoring case, in that order; a record
\* that matches by its type only is returned and no uri comes twice.
C17_SearchDocuments ==
    [][call'.op = "searchDocuments"
          => /\ outcome'.status = "resolved"
             /\ outcome'.docs =
                   SelectSeq(C17_FirstOccurrences(Recent \o Bookmarks),
                             LAMBDA doc : C17_Matches(doc, call'.query))
             /\ UniqueByUri(outcome'.docs)
             /\ storage' = storage]_vars

\* "PDF" was searched with DocA2 ("renamed.txt", txt) and DocR ("Report",
\* pdf) in the Recent list and DocA ("Report.pdf", same uri as DocA2)
\* bookmarked: DocR, which matches by its type only, is the one result.
C17_Witness ==
    /\ call.op = "searchDocuments"
    /\ call.query = "PDF"
    /\ Len(Recent) = 2
    /\ Some(Recent, DocR.uri)
    /\ \E i \in 1..Len(Recent) : Recent[i] = DocA2
    /\ \E i \in 1..Len(Bookmarks) : Bookmarks[i] = DocA
    /\ outcome.docs = <<DocR>>

(***************************************************************************)
(* C18.  Blank queries.                                                    *)
(***************************************************************************)
\* C18: searchDocuments of the TS service returns the empty list for an
\* empty or whitespace-only query, whatever the Recent and Bookmarks lists
\* hold.
C18_BlankQuery ==
    [][(call'.op = "searchDocuments" /\ call'.query \in {"", " "})
          => outcome'.docs = <<>>]_vars

(***************************************************************************)
(* C19.  Records without uri or name.                                      *)
(***************************************************************************)
C19_Valid(doc) == doc.uri # Undefined /\ doc.name # Undefined

\* C19: (both services) addToRecentDocuments and addBookmark called with
\* a record that lacks uri or name report an error and perform no setItem,
\* so no persisted list ever holds a record without uri or name.
C19_InvalidRejected ==
    /\ [](/\ \A i \in 1..Len(Recent) : C19_Valid(Recent[i])
          /\ \A i \in 1..Len(Bookmarks) : C19_Valid(Bookmarks[i]))
    /\ [][(/\ call'.op \in {"addBookmark", "addToRecentDocuments"}
           /\ ~C19_Valid(call'.doc))
             => (~Succeeded' /\ storage' = storage)]_vars

(***************************************************************************)
(* C20.  accessedAt of the TS service.                                     *)
(***************************************************************************)
C20_Stamped(doc) == "accessedAt" \in DOMAIN doc /\ doc.accessedAt \in Times

\* C20: every record the TS addToRecentDocuments writes to the Recent list
\* carries accessedAt, equal to the time of the call, so the accessedAt
\* values of the persisted list do not increase from index 0 to the tail.
C20_AccessedAtStamped ==
    /\ [][(impl = "ts" /\ call'.op = "addToRecentDocuments" /\ Succeeded')
             => C20_Stamped(Recent'[1])]_vars
    /\ [](impl = "ts"
            => \A i, j \in 1..Len(Recent) :
                  i < j => /\ C20_Stamped(Recent[i])
                           /\ C20_Stamped(Recent[j])
                           /\ Recent[i].accessedAt >= Recent[j].accessedAt)

(***************************************************************************)
(* C21.  Storage errors at the boundary of the TS service.                 *)
(***************************************************************************)
\* C21: (TS service) when getItem or setItem fails with the error e inside
\* a public operation the caller never receives e itself: a read returns
\* an empty result, a mutating operation fails with an error or indicator
\* of the store that wraps or replaces e.
C21_NoRawError ==
    [][impl = "ts"
          => /\ outcome'.error # StorageError
             /\ (call'.getFails /\ call'.op \in {"getBookmarks", "getRecentDocuments"})
                   => (outcome'.status = "resolved" /\ outcome'.docs = <<>>)]_vars

(***************************************************************************)
(* C22.  Sequential read-after-write.                                      *)
(***************************************************************************)
\* C22: (both services, failure-free, each call awaited before the next)
\* every mutating call resolves with its setItem done, so the reads return
\* what is persisted and the call made next sees the whole effect of the
\* one before: after addToRecentDocuments(A) getRecentDocuments has A's
\* record first; after addBookmark(A) isDocumentBookmarked(A.uri) is true
\* and getBookmarks holds A's uri; after removeBookmark(u)
\* isDocumentBookmarked(u) is false and getBookmarks does not hold u;
\* after clearRecentDocuments getRecentDocuments is empty.  (Records are
\* told apart by uri: the JS service stores its own record for A.)
C22_ReadAfterWrite ==
    [][/\ call'.op \in Mutating => Succeeded'
       /\ call'.op = "getRecentDocuments"
            => /\ outcome'.docs = Recent
               /\ call.op = "addToRecentDocuments"
                     => /\ Len(outcome'.docs) >= 1
                        /\ Carries(outcome'.docs[1], call.doc)
               /\ call.op = "clearRecentDocuments" => outcome'.docs = <<>>
       /\ call'.op = "getBookmarks"
            => /\ outcome'.docs = Bookmarks
               /\ call.op = "addBookmark"
                     => CountUri(outcome'.docs, call.uri) = 1
               /\ call.op = "removeBookmark"
                     => CountUri(outcome'.docs, call.uri) = 0
       /\ (call'.op = "isDocumentBookmarked" /\ call'.uri = call.uri)
            => /\ call.op = "addBookmark" => outcome'.ret
               /\ call.op = "removeBookmark" => ~outcome'.ret]_vars

\* addToRecentDocuments(DocA), addBookmark(DocA), then getBookmarks: it
\* returns the one bookmark, of DocA's uri, and the Recent list is [DocA].
C22_Witness ==
    /\ call.op = "getBookmarks"
    /\ Len(outcome.docs) = 1
    /\ outcome.docs[1].uri = DocA.uri
    /\ outcome.docs[1].name = DocA.name
    /\ Len(Recent) = 1
    /\ Carries(Recent[1], DocA)
    /\ opened.tracking

(***************************************************************************)
(* C23.  Round trip through persistence (TS service).                      *)
(***************************************************************************)
\* The record read back has the uri, name, type, size and lastModified of
\* the record handed over.
C23_SameFields(read, d) ==
    \A k \in DocumentInfoKeys : k \in DOMAIN read /\ read[k] = d[k]

\* C23: (TS service, failure-free) the record handed to addBookmark (of a
\* uri not yet bookmarked) and read back with getBookmarks is equal to it
\* in uri, name, type, size and lastModified, and so is the record handed
\* to addToRecentDocuments and read back with getRecentDocuments.
C23_RoundTrip ==
    [][/\ (call'.op = "addBookmark" /\ CountUri(Bookmarks, call'.uri) = 0)
            => C23_SameFields(TS_getBookmarks(storage', FALSE)[1], call'.doc)
       /\ call'.op = "addToRecentDocuments"
            => C23_SameFields(TS_getRecentDocuments(storage', FALSE)[1], call'.doc)
       /\ call'.op = "getBookmarks"
            => /\ outcome'.docs = Bookmarks
               /\ (call.op = "addBookmark" /\ outcome'.docs[1].name = call.doc.name)
                     => C23_SameFields(outcome'.docs[1], call.doc)
       /\ call'.op = "getRecentDocuments"
            => /\ outcome'.docs = Recent
               /\ call.op = "addToRecentDocuments"
                     => C23_SameFields(outcome'.docs[1], call.doc)]_vars

\* DocDated was bookmarked and getBookmarks read it back: the five
\* properties are DocDated's, and the Date it carried under openedOn came
\* back as a string.
C23_Witness ==
    /\ call.op = "getBookmarks"
    /\ Len(outcome.docs) = 2
    /\ outcome.docs[1].uri = DocDated.uri
    /\ C23_SameFields(outcome.docs[1], DocDated)
    /\ outcome.docs[1].openedOn = DateISO
    /\ DocDated.openedOn = DateValue

(***************************************************************************)
(* C24.  What overlapping TS calls can store.                              *)
(***************************************************************************)
\* C24: (TS service) whatever the interleaving of overlapping
\* addToRecentDocuments, clearRecentDocuments, addBookmark and
\* removeBookmark calls, every value stored under recentDocuments has no
\* two records of one uri and at most MAX_RECENT_DOCUMENTS records, and
\* every value stored under bookmarks has no two records of one uri.
C24_NoDuplicateNoOverlong ==
    /\ UniqueByUri(Recent)
    /\ Len(Recent) <= MAX_RECENT_DOCUMENTS
    /\ UniqueByUri(Bookmarks)

\* addToRecentDocuments(x) read a full list without x, a
\* clearRecentDocuments landed meanwhile, and the add's setItem landed
\* last: the clear is lost, and the list stored is full, not longer.
C24_Witness ==
    /\ Len(Recent) = MAX_RECENT_DOCUMENTS
    /\ \E c \in Callers :
          /\ tasks[c].op = "addToRecentDocuments"
          /\ tasks[c].pc = "done"
          /\ tasks[c].stale
          /\ Len(tasks[c].read) = MAX_RECENT_DOCUMENTS
          /\ ~Some(tasks[c].read, tasks[c].uri)
          /\ Recent[1] = tasks[c].doc
    /\ \E c \in Callers :
          tasks[c].op = "clearRecentDocuments" /\ tasks[c].pc = "done"
    /\ UniqueByUri(Bookmarks) /\ Len(Bookmarks) = 2

(***************************************************************************)
(* C25.  initializeService and the calls it overlaps.                      *)
(***************************************************************************)
\* initializeService's setItem lands on the key in this step.
C25_InitializeWrites(key) ==
    /\ tasks[InitializeService].pc \in
          {"setItem bookmarks", "setItem recentDocuments"}
    /\ InitializeKey(tasks[InitializeService].pc) = key
    /\ tasks'[InitializeService].pc # tasks[InitializeService].pc

\* The caller's add of a record under the key has returned true.
C25_Added(c, key) ==
    /\ tasks[c].op \in JS_RaceOps
    /\ TS_keyOf(tasks[c].op) = key
    /\ tasks[c].pc = "done"
    /\ tasks[c].status = "resolved"

\* C25: (JS service) initializeService, started by the constructor and not
\* awaited, stores an empty list under a key only if the key is still
\* absent; whatever the interleaving with addBookmark and
\* addToRecentDocuments, no record whose add returned true goes missing
\* because initializeService wrote after it.
C25_InitializeKeepsRecords ==
    [][\A key \in StorageKeys : C25_InitializeWrites(key) =>
          /\ storage[key] = Null
          /\ \A c \in Callers :
                (C25_Added(c, key)
                   /\ Some(JSON_parse(storage[key]).docs, tasks[c].uri))
                => Some(JSON_parse(storage'[key]).docs, tasks[c].uri)]_vars

(***************************************************************************)
(* C26.  The hook's bookmarkedDocuments and the store after toggling.      *)
(***************************************************************************)
\* No toggleBookmark invocation is in flight.
C26_Settled == \A c \in Callers : tasks[c].pc \in {"idle", "done"}

\* C26: (TS hook useDocuments) once every toggleBookmark invocation in
\* flight has returned, each document that was toggled has its uri in the
\* hook's bookmarkedDocuments exactly if it has it in the stored Bookmarks
\* list, and the last toggleBookmark to return for it returned that
\* membership; also when invocations overlapped.
C26_HookAgreesWithStore ==
    C26_Settled =>
       \A u \in DOMAIN observed.returned :
          observed.returned[u] # "none" =>
             /\ Some(component.bookmarkedDocuments, u) <=> Some(Bookmarks, u)
             /\ observed.returned[u] = "true" <=> Some(Bookmarks, u)

(***************************************************************************)
(* C27.  Overlapping loadDocuments calls.                                  *)
(***************************************************************************)
\* No loadDocuments call is awaiting.
C27_Settled == \A c \in Callers : tasks[c].pc \in {"idle", "done"}

\* C27: (TS hook useDocuments) when loadDocuments was started again
\* (searchQuery changed) while an earlier call was still awaiting, then,
\* both calls settled, documents holds what the later call loaded,
\* whichever of the two resolved first, and isLoading is false.
C27_LatestLoadWins ==
    (C27_Settled /\ observed.latest # "none") =>
        /\ component.documents =
              sortDocuments(LoadedDocs(tasks[observed.latest].query))
        /\ ~component.isLoading

(***************************************************************************)
(* C28.  The JS and the TS service on the same calls.                      *)
(***************************************************************************)
\* The uris of a stored list, in its order.
C28_UrisOf(value) ==
    LET docs == JSON_parse(value).docs IN [i \in 1..Len(docs) |-> docs[i].uri]

\* C28: after any sequence of addToRecentDocuments, clearRecentDocuments,
\* addBookmark and removeBookmark calls, made one after another with no
\* storage fault on both services from empty storage, the uris stored
\* under recentDocuments are the same sequence in the JS and in the TS
\* service, and so are the uris stored under bookmarks.
C28_SameUriSequences ==
    \A key \in StorageKeys :
        C28_UrisOf(observed.js[key]) = C28_UrisOf(storage[key])

(***************************************************************************)
(* C29.  The theme preference through a restart.                           *)
(***************************************************************************)
\* C29: (TS ThemeProvider) for every scheme s of light, dark and auto and
\* every device colour scheme: setScheme(s) was called and its save
\* landed, the provider was mounted again with the same device colour
\* scheme, and loadThemePreference has finished; then isDark is what it
\* was right after setScheme(s).
C29_PreferenceRoundTrip ==
    (/\ observed.remounted
     /\ component.isInitialized
     /\ component.deviceColorScheme = observed.deviceColorScheme)
        => component.isDark = observed.isDark

(***************************************************************************)
(* C30.  The viewer's loadDocument settles.                                *)
(***************************************************************************)
\* The run of loadDocument is over.
C30_Settled == tasks[LoadDocument].pc = "done"

\* The state a finished run leaves, by what happened in it.
C30_Errors ==
    C30_Settled =>
       /\ ~component.isLoading
       /\ IF component.params.uri = Undefined
          THEN component.error = "No document URI provided"
          ELSE /\ component.error = "Failed to load document"
                     <=> observed.rejected # "none"
               /\ observed.rejected = "none" => component.error = "null"
               /\ observed.rejected = "addToRecentDocuments"
                     => ~component.isBookmarked

\* C30: (TS DocumentViewerScreen) every awaited DocumentService call
\* settling in the end, each run of loadDocument ends by setting isLoading
\* to false; error is 'No document URI provided' when the uri is missing,
\* 'Failed to load document' exactly when getDocumentInfo,
\* addToRecentDocuments or isDocumentBookmarked rejected (a rejected write
\* of the Recent list leaves isBookmarked false), and null when the three
\* succeeded.
C30_LoadDocumentSettles ==
    /\ []C30_Errors
    /\ ~C30_Settled ~> (C30_Settled /\ ~component.isLoading)

\* DocA is bookmarked; the viewer opened it, the write of the Recent list
\* was rejected, and the run ended in the error state with isBookmarked
\* false.
C30_Witness ==
    /\ C30_Settled
    /\ component.params.uri = DocA.uri
    /\ Some(Bookmarks, DocA.uri)
    /\ observed.rejected = "addToRecentDocuments"
    /\ component.error = "Failed to load document"
    /\ ~component.isBookmarked
    /\ ~component.isLoading

====
